---------------------------- MODULE Spec2Model ----------------------------
(***************************************************************************)
(* A model of the streaming core of the uhd-usrp crate: the receive       *)
(* stream object with its start/stop commands and reader                   *)
(* (usrp/stream/rx_stream.rs), the reader session of the rx.rs revision,   *)
(* the transmit call of the tx.rs revision and the owned native handle     *)
(* (ffi.rs).  The native driver is an environment: every native call       *)
(* returns a code drawn from NativeCodes, and the streaming engine behind  *)
(* the receive handle follows the command protocol.                        *)
(***************************************************************************)
EXTENDS Integers, Sequences, FiniteSets, TLC

(* ------------------------------ bounds --------------------------------- *)
\* Largest channel count a stream reports.
MaxChannels == 2
\* Largest "max samples per call" a stream reports.
MaxSpb == 2
\* Largest sample count given to with_limit / limit.
MaxLimit == 3
\* Number of recv calls followed in one reader session (rx.rs revision).
MaxRecv == 3

(* ------------------------------ options -------------------------------- *)
None == <<>>
Some(x) == <<x>>
IsSome(o) == o /= <<>>
Unwrap(o) == o[1]

Ok(v) == [ok |-> TRUE, val |-> v]
Err(e) == [ok |-> FALSE, err |-> e]
Unit == "()"

(* --------------------------- error taxonomy ---------------------------- *)
\* The native codes with a name in the binding (uhd_error).
NamedCodes ==
  { "UHD_ERROR_NONE", "UHD_ERROR_INVALID_DEVICE", "UHD_ERROR_INDEX",
    "UHD_ERROR_KEY", "UHD_ERROR_NOT_IMPLEMENTED", "UHD_ERROR_USB",
    "UHD_ERROR_IO", "UHD_ERROR_OS", "UHD_ERROR_ASSERTION", "UHD_ERROR_LOOKUP",
    "UHD_ERROR_TYPE", "UHD_ERROR_VALUE", "UHD_ERROR_RUNTIME",
    "UHD_ERROR_ENVIRONMENT", "UHD_ERROR_SYSTEM", "UHD_ERROR_EXCEPT",
    "UHD_ERROR_BOOSTEXCEPT", "UHD_ERROR_STDEXCEPT", "UHD_ERROR_UNKNOWN" }

\* A code the binding gives no name to.
UnnamedCode == "0xdead"

\* A from_sys whose match has lost its arms for the named error codes.
from_sys_all_unknown(e) == IF e = "UHD_ERROR_NONE" THEN None ELSE Some("Unknown")

\* UhdError::from_sys: None for the success code, else Some(kind).
from_sys(e) ==
  CASE e = "UHD_ERROR_NONE"            -> None
    [] e = "UHD_ERROR_INVALID_DEVICE"  -> Some("InvalidDevice")
    [] e = "UHD_ERROR_INDEX"           -> Some("Index")
    [] e = "UHD_ERROR_KEY"             -> Some("Key")
    [] e = "UHD_ERROR_NOT_IMPLEMENTED" -> Some("NotImplemented")
    [] e = "UHD_ERROR_USB"             -> Some("Usb")
    [] e = "UHD_ERROR_IO"              -> Some("Io")
    [] e = "UHD_ERROR_OS"              -> Some("Os")
    [] e = "UHD_ERROR_ASSERTION"       -> Some("Assertion")
    [] e = "UHD_ERROR_LOOKUP"          -> Some("Lookup")
    [] e = "UHD_ERROR_TYPE"            -> Some("Type")
    [] e = "UHD_ERROR_VALUE"           -> Some("Value")
    [] e = "UHD_ERROR_RUNTIME"         -> Some("Runtime")
    [] e = "UHD_ERROR_ENVIRONMENT"     -> Some("Environment")
    [] e = "UHD_ERROR_SYSTEM"          -> Some("System")
    [] e = "UHD_ERROR_EXCEPT"          -> Some("Except")
    [] e = "UHD_ERROR_BOOSTEXCEPT"     -> Some("BoostExcept")
    [] e = "UHD_ERROR_STDEXCEPT"       -> Some("StdExcept")
    [] OTHER                           -> Some("Unknown")

\* The try_uhd! macro: Ok(()) for no error, Err(kind) otherwise.
try_uhd(e) ==
  IF from_sys(e) = None THEN Ok(Unit) ELSE Err(Unwrap(from_sys(e)))

\* The codes a native call of the model returns.
NativeCodes == { "UHD_ERROR_NONE", "UHD_ERROR_IO", UnnamedCode }

(* ------------------------------ time ----------------------------------- *)
\* A TimeSpec: whole seconds and a fraction counted in the smallest step of
\* the fraction (FracUnit steps make one second).
TimeSpec(full, frac) == [full_secs |-> full, frac_secs |-> frac]
ZERO == TimeSpec(0, 0)
is_zero(t) == t.full_secs = 0 /\ t.frac_secs = 0
\* The times handed to with_time.
Times == { ZERO, TimeSpec(3, 1) }


(* ============================ state ==================================== *)
VARIABLES
  stream,    \* the RxStream object: status, cached channels and samples_per_buffer
  cmd,       \* the live RxStartCommand builder: None or Some(fields)
  cmdArgs,   \* the arguments of the last with_time and with_limit calls on it
  reader,    \* the live RxStreamReader: None or Some(fields)
  engine,    \* the native streaming engine behind the receive handle
  rxGhost,   \* history of the calls made on the stream (not program state)
  rxLast     \* the last operation on the stream: its result and native calls

rxVars == <<stream, cmd, cmdArgs, reader, engine, rxGhost, rxLast>>

VARIABLES
  sess,      \* rx.rs revision: the reader session (options, reader, its events)
  sessLast,  \* rx.rs revision: the last operation of the session
  txLast,    \* tx.rs revision: the last TxStream::send call
  handles,   \* ffi.rs: the OwnedHandle values, by slot
  hLast      \* ffi.rs: the last operation on an OwnedHandle

sessVars == <<sess, sessLast>>
txVars == <<txLast>>
hVars == <<handles, hLast>>

VARIABLES
  errs,      \* error.rs: the last two translations of a native code
  ffiStr     \* ffi.rs: the FfiString in use, and the result of into_string

VARIABLES
  heap,      \* buffer/: the allocations made for sample buffers, by address
  abuf,      \* buffer/arraybuffer.rs: the ArrayBuffer in use: None or Some
  abuf2,     \* buffer/arraybuffer.rs: a second ArrayBuffer (a clone, or another)
  sbuf,      \* buffer/mod.rs: a slice [S] used as a one-channel buffer
  abMade,    \* how abuf was constructed, and from what (not program state)
  abLast     \* the last operation on a buffer and what it returned

VARIABLES
  tval,      \* time.rs: the TimeSpec in hand
  tLast      \* time.rs: the last operation on a TimeSpec and what it returned

VARIABLES
  txs,   \* tx_stream.rs: the TxStream object: status, cached channels and samples
  twLast    \* tx_stream.rs: the last operation on the TxStream and its native calls

VARIABLES
  released,   \* buffer/arraybuffer.rs: the deallocations made, in order
  vecs    \* buffer/arraybuffer.rs: the regions owned by the vectors into_vec returned

VARIABLES
  until    \* rx_stream.rs: the recv_until call: its buffer, and its recvs and predicate answers so far

VARIABLES
  lastMsg    \* error.rs: the last last_error_message call: what the native call wrote and returned, and the result

errVars == <<errs>>
strVars == <<ffiStr>>
timeVars == <<tval, tLast>>
msgVars == <<lastMsg>>
untilVars == <<until>>
lifeVars == <<released, vecs>>
txsVars == <<txs, twLast>>
bufVars == <<heap, abuf, abuf2, sbuf, abMade, abLast>>
nonRx == <<sessVars, txVars, hVars, errVars, strVars, bufVars, timeVars, txsVars, lifeVars, untilVars, msgVars>>
nonSess == <<rxVars, txVars, hVars, errVars, strVars, bufVars, timeVars, txsVars, lifeVars, untilVars, msgVars>>
nonTx == <<rxVars, sessVars, hVars, errVars, strVars, bufVars, timeVars, txsVars, lifeVars, untilVars, msgVars>>
nonH == <<rxVars, sessVars, txVars, errVars, strVars, bufVars, timeVars, txsVars, lifeVars, untilVars, msgVars>>
nonErr == <<rxVars, sessVars, txVars, hVars, strVars, bufVars, timeVars, txsVars, lifeVars, untilVars, msgVars>>
nonStr == <<rxVars, sessVars, txVars, hVars, errVars, bufVars, timeVars, txsVars, lifeVars, untilVars, msgVars>>
nonBuf == <<rxVars, sessVars, txVars, hVars, errVars, strVars, timeVars, txsVars, lifeVars, untilVars, msgVars>>
nonTime == <<rxVars, sessVars, txVars, hVars, errVars, strVars, bufVars, txsVars, lifeVars, untilVars, msgVars>>
nonTxs == <<rxVars, sessVars, txVars, hVars, errVars, strVars, bufVars, timeVars, lifeVars, untilVars, msgVars>>
nonLife == <<rxVars, sessVars, txVars, hVars, errVars, strVars, bufVars, timeVars, txsVars, untilVars, msgVars>>
nonBufLife == <<rxVars, sessVars, txVars, hVars, errVars, strVars, timeVars, txsVars, untilVars, msgVars>>
nonUntil == <<rxVars, sessVars, txVars, hVars, errVars, strVars, bufVars, timeVars, txsVars, lifeVars, msgVars>>
nonRxUntil == <<sessVars, txVars, hVars, errVars, strVars, bufVars, timeVars, txsVars, lifeVars, msgVars>>
nonMsg == <<rxVars, sessVars, txVars, hVars, errVars, strVars, bufVars, timeVars, txsVars, lifeVars, untilVars>>

(* ===================== native streaming engine ========================= *)
STOP_CONTINUOUS == "UHD_STREAM_MODE_STOP_CONTINUOUS"
START_CONTINUOUS == "UHD_STREAM_MODE_START_CONTINUOUS"
NUM_SAMPS_AND_DONE == "UHD_STREAM_MODE_NUM_SAMPS_AND_DONE"
NUM_SAMPS_AND_MORE == "UHD_STREAM_MODE_NUM_SAMPS_AND_MORE"

\* usize::MAX, the count a start-continuous command carries.
USIZE_MAX == "usize::MAX"

EngineIdle == [mode |-> "idle", remaining |-> 0, late |-> FALSE]

\* The engine after it accepted command c.  A scheduled command (stream_now
\* cleared) may be found late, and then leaves the engine Idle.
EngineIssue(e, c, late) ==
  CASE c.stream_mode = STOP_CONTINUOUS -> EngineIdle
    [] late -> [mode |-> "idle", remaining |-> 0, late |-> TRUE]
    [] c.stream_mode = START_CONTINUOUS ->
         [mode |-> "continuous", remaining |-> 0, late |-> FALSE]
    [] c.stream_mode = NUM_SAMPS_AND_DONE ->
         IF c.num_samps = 0 THEN EngineIdle
         ELSE [mode |-> "done", remaining |-> c.num_samps, late |-> FALSE]
    [] OTHER ->
         [mode |-> "more", remaining |-> c.num_samps, late |-> FALSE]

\* The sample counts one receive call of nsamps samples can report.
EngineCounts(e, nsamps) ==
  CASE e.mode = "idle" -> {0}
    [] e.mode = "continuous" -> 0 .. nsamps
    [] OTHER -> 0 .. (IF nsamps < e.remaining THEN nsamps ELSE e.remaining)

\* The error conditions the metadata of a receive of n samples can carry.
EngineConditions(e, n) ==
  CASE e.mode = "idle" -> IF e.late THEN {"late_command"} ELSE {"timeout"}
    [] e.mode = "more" /\ e.remaining = 0 -> {"timeout", "broken_chain"}
    [] n = 0 -> {"timeout", "overflow"}
    [] OTHER -> {"none"}

\* The engine after a receive call reported n samples: a counted and-done
\* stream turns Idle by itself once its count is exhausted.
EngineAfterRecv(e, n) ==
  CASE e.mode = "idle" -> EngineIdle
    [] e.mode = "continuous" -> e
    [] e.mode = "done" /\ e.remaining = n -> EngineIdle
    [] OTHER -> [e EXCEPT !.remaining = e.remaining - n]

(* ======================= rx_stream.rs: RxStream ======================== *)
Call(fn, code) == [fn |-> fn, code |-> code]
Fns(calls) == [i \in DOMAIN calls |-> calls[i].fn]

\* RxStreamBuilder::open with RxStream::new: the native calls made, in order,
\* for the codes the four native calls return.
open_calls(mk, get, q1, q2) ==
  IF ~try_uhd(mk).ok
    THEN << Call("uhd_rx_streamer_make", mk), Call("uhd_rx_streamer_free", "UHD_ERROR_NONE") >>
  ELSE IF ~try_uhd(get).ok
    THEN << Call("uhd_rx_streamer_make", mk), Call("uhd_usrp_get_rx_stream", get) >>
  ELSE IF ~try_uhd(q1).ok
    THEN << Call("uhd_rx_streamer_make", mk), Call("uhd_usrp_get_rx_stream", get),
            Call("uhd_rx_streamer_max_num_samps", q1),
            Call("uhd_rx_streamer_free", "UHD_ERROR_NONE") >>
  ELSE IF ~try_uhd(q2).ok
    THEN << Call("uhd_rx_streamer_make", mk), Call("uhd_usrp_get_rx_stream", get),
            Call("uhd_rx_streamer_max_num_samps", q1),
            Call("uhd_rx_streamer_num_channels", q2),
            Call("uhd_rx_streamer_free", "UHD_ERROR_NONE") >>
  ELSE << Call("uhd_rx_streamer_make", mk), Call("uhd_usrp_get_rx_stream", get),
          Call("uhd_rx_streamer_max_num_samps", q1),
          Call("uhd_rx_streamer_num_channels", q2) >>

\* The result of RxStreamBuilder::open: the first failing code, translated.
open_result(mk, get, q1, q2) ==
  IF ~try_uhd(mk).ok THEN try_uhd(mk)
  ELSE IF ~try_uhd(get).ok THEN try_uhd(get)
  ELSE IF ~try_uhd(q1).ok THEN try_uhd(q1)
  ELSE IF ~try_uhd(q2).ok THEN try_uhd(q2)
  ELSE Ok("RxStream")

NoStream == [status |-> "none", channels |-> 0, samples_per_buffer |-> 0]
\* What is remembered of the stops: none yet, a stop of a streaming engine, or
\* such a stop with a redundant stop (of an Idle engine) after it.
StopsAfter(stops, idle) ==
  IF ~idle THEN (IF stops = "none" THEN "stopped" ELSE stops)
  ELSE (IF stops = "stopped" THEN "redundant" ELSE stops)

NoArgs == [timeArg |-> None, limitArg |-> None, limitCalls |-> 0]
GhostInit ==
  [stopSinceStart |-> TRUE, burst |-> None, delivered |-> 0, stops |-> "none"]

\* What the native side answers to the calls of one open: the codes of the
\* four calls (a call after the first failing one is never made) and, when all
\* succeed, the two constants the new handle reports.
OpenOutcomes ==
  { o \in [codes : [1 .. 4 -> NativeCodes], spb : 1 .. MaxSpb, ch : 1 .. MaxChannels] :
      /\ \A i \in 1 .. 4 : \A j \in 1 .. 4 :
            (i < j /\ o.codes[i] /= "UHD_ERROR_NONE") => o.codes[j] = "UHD_ERROR_NONE"
      /\ (\E i \in 1 .. 4 : o.codes[i] /= "UHD_ERROR_NONE") => (o.spb = 1 /\ o.ch = 1) }

BuilderOpen ==
  /\ stream.status /= "open"
  /\ \E o \in OpenOutcomes :
       LET mk == o.codes[1]
           get == o.codes[2]
           q1 == o.codes[3]
           q2 == o.codes[4]
           spb == o.spb
           ch == o.ch
           res == open_result(mk, get, q1, q2)
       IN
       /\ stream' = IF res.ok
                      THEN [status |-> "open", channels |-> ch, samples_per_buffer |-> spb]
                      ELSE NoStream
       /\ rxLast' = [op |-> "open", result |-> res, calls |-> open_calls(mk, get, q1, q2)]
  /\ engine' = EngineIdle
  /\ rxGhost' = GhostInit
  /\ UNCHANGED <<cmd, cmdArgs, reader>>
  /\ UNCHANGED nonRx

\* A stop_now that issues the default command mode instead of the stop mode.
stop_now_cmd_start ==
  [stream_mode |-> START_CONTINUOUS, num_samps |-> 0, stream_now |-> FALSE,
   time_spec_full_secs |-> 0, time_spec_frac_secs |-> 0]

\* RxStream::stop_now: the command record it issues.
stop_now_cmd ==
  [stream_mode |-> STOP_CONTINUOUS, num_samps |-> 0, stream_now |-> FALSE,
   time_spec_full_secs |-> 0, time_spec_frac_secs |-> 0]

\* stop_now takes &self: it cannot run while a reader holds the &mut borrow.
StopNow ==
  /\ stream.status = "open"
  /\ reader = None
  /\ \E code \in NativeCodes :
       LET res == try_uhd(code) IN
       /\ engine' = IF res.ok THEN EngineIssue(engine, stop_now_cmd, FALSE) ELSE engine
       /\ rxLast' = [op |-> "stop_now", result |-> res, idleBefore |-> engine.mode = "idle",
                     calls |-> << [fn |-> "uhd_rx_streamer_issue_stream_cmd",
                                   cmd |-> stop_now_cmd, code |-> code] >>]
       /\ rxGhost' = IF res.ok
                       THEN [rxGhost EXCEPT
                               !.stopSinceStart = TRUE, !.burst = None,
                               !.delivered = 0,
                               !.stops = StopsAfter(@, engine.mode = "idle")]
                       ELSE rxGhost
  /\ UNCHANGED <<stream, cmd, cmdArgs, reader>>
  /\ UNCHANGED nonRx

\* Dropping the RxStream: it has no Drop of its own, so only its field, the
\* OwnedHandle, is dropped, which calls the release function.
drop_stream_calls(code) == << Call("uhd_rx_streamer_free", code) >>

DropStream ==
  /\ stream.status = "open"
  /\ reader = None
  /\ cmd = None
  /\ \E code \in NativeCodes :
       rxLast' = [op |-> "drop_stream", result |-> Ok(Unit),
                  streamingBefore |-> engine.mode /= "idle",
                  stoppedBefore |-> rxGhost.stopSinceStart,
                  calls |-> drop_stream_calls(code)]
  /\ stream' = [stream EXCEPT !.status = "dropped"]
  /\ UNCHANGED <<cmd, cmdArgs, reader, engine, rxGhost>>
  /\ UNCHANGED nonRx

(* ==================== rx_stream.rs: RxStartCommand ===================== *)
\* RxStartCommand::new: at_time is TimeSpec::ZERO and there is no limit.
new_command == [at_time |-> ZERO, limit |-> None]

\* start_command borrows the stream (&self): no reader may be live.
StartCommand ==
  /\ stream.status = "open"
  /\ reader = None
  /\ cmd = None
  /\ cmd' = Some(new_command)
  /\ cmdArgs' = NoArgs
  /\ rxLast' = [op |-> "start_command", result |-> Ok(Unit), calls |-> <<>>]
  /\ UNCHANGED <<stream, reader, engine, rxGhost>>
  /\ UNCHANGED nonRx

with_time(c, at_time) == [c EXCEPT !.at_time = at_time]

WithTime ==
  /\ IsSome(cmd)
  /\ \E t \in Times :
       /\ cmd' = Some(with_time(Unwrap(cmd), t))
       /\ cmdArgs' = [cmdArgs EXCEPT !.timeArg = Some(t)]
  /\ rxLast' = [op |-> "with_time", result |-> Ok(Unit), calls |-> <<>>]
  /\ UNCHANGED <<stream, reader, engine, rxGhost>>
  /\ UNCHANGED nonRx

\* A with_limit that keeps the limit of the first call.
with_limit_first_wins(c, limit, and_done) ==
  IF IsSome(c.limit) THEN c ELSE [c EXCEPT !.limit = Some(<<limit, and_done>>)]

with_limit(c, limit, and_done) == [c EXCEPT !.limit = Some(<<limit, and_done>>)]

WithLimit ==
  /\ IsSome(cmd)
  /\ \E n \in 0 .. MaxLimit, and_done \in BOOLEAN :
       /\ cmd' = Some(with_limit(Unwrap(cmd), n, and_done))
       /\ cmdArgs' = [cmdArgs EXCEPT !.limitArg = Some(<<n, and_done>>),
                                      !.limitCalls = IF @ < 2 THEN @ + 1 ELSE @]
  /\ rxLast' = [op |-> "with_limit", result |-> Ok(Unit), calls |-> <<>>]
  /\ UNCHANGED <<stream, reader, engine, rxGhost>>
  /\ UNCHANGED nonRx

\* An n_samples that asks for one sample more than the limit.
n_samples_off_by_one(c) == IF IsSome(c.limit) THEN Unwrap(c.limit)[1] + 1 ELSE USIZE_MAX

n_samples(c) == IF IsSome(c.limit) THEN Unwrap(c.limit)[1] ELSE USIZE_MAX

stream_mode(c) ==
  IF IsSome(c.limit)
    THEN (IF Unwrap(c.limit)[2] THEN NUM_SAMPS_AND_DONE ELSE NUM_SAMPS_AND_MORE)
    ELSE START_CONTINUOUS

\* The uhd_stream_cmd_t that RxStartCommand::send builds.
send_cmd(c) ==
  [stream_mode |-> stream_mode(c),
   num_samps |-> n_samples(c),
   stream_now |-> ~is_zero(c.at_time),
   time_spec_full_secs |-> c.at_time.full_secs,
   time_spec_frac_secs |-> c.at_time.frac_secs]

\* Whether the engine may find the command late: only a scheduled command
\* (stream_now cleared) that the native call accepted.
LateChoices(sc, code) ==
  IF try_uhd(code).ok /\ ~sc.stream_now THEN BOOLEAN ELSE {FALSE}

\* RxStartCommand::send on the builder value c: the command is issued, and
\* the engine applies it when the native call reports success.
SendWith(c, args, code, late) ==
  LET sc == send_cmd(c)
      res == try_uhd(code)
  IN
  /\ late \in LateChoices(sc, code)
  /\ engine' = IF res.ok THEN EngineIssue(engine, sc, late) ELSE engine
  /\ rxGhost' =
       IF res.ok
         THEN [rxGhost EXCEPT
                 !.stopSinceStart = FALSE,
                 !.delivered = 0,
                 !.burst = IF IsSome(args.limitArg) /\ Unwrap(args.limitArg)[2] /\ ~late
                             THEN Some(Unwrap(args.limitArg)[1]) ELSE None]
         ELSE rxGhost
  /\ rxLast' = [op |-> "send", result |-> res, late |-> late,
                timeArg |-> args.timeArg, limitArg |-> args.limitArg,
                limitCalls |-> args.limitCalls,
                stopsEarlier |-> rxGhost.stops,
                calls |-> << [fn |-> "uhd_rx_streamer_issue_stream_cmd",
                              cmd |-> sc, code |-> code] >>]

\* send on the live builder.
Send ==
  /\ IsSome(cmd)
  /\ \E code \in NativeCodes :
       \E late \in LateChoices(send_cmd(Unwrap(cmd)), code) :
         SendWith(Unwrap(cmd), cmdArgs, code, late)
  /\ UNCHANGED <<stream, cmd, cmdArgs, reader>>
  /\ UNCHANGED nonRx

\* The statement either has no with_time call or one with a non-zero time (an
\* explicit zero time gives the same builder as no call).
TimeArgs == {None} \cup {Some(t) : t \in Times \ {ZERO}}
LimitArgs == {None} \cup {Some(<<n, b>>) : n \in 0 .. MaxLimit, b \in BOOLEAN}

\* The builder after start_command() and the given with_time / with_limit calls.
built(ta, la) ==
  LET c0 == new_command
      c1 == IF IsSome(ta) THEN with_time(c0, Unwrap(ta)) ELSE c0
  IN IF IsSome(la) THEN with_limit(c1, Unwrap(la)[1], Unwrap(la)[2]) ELSE c1

\* One statement stream.start_command()[.with_time(t)][.with_limit(n, d)].send():
\* the builder is a temporary of the statement.
StartStream ==
  /\ stream.status = "open"
  /\ reader = None
  /\ cmd = None
  /\ \E ta \in TimeArgs, la \in LimitArgs, code \in NativeCodes :
       \E late \in LateChoices(send_cmd(built(ta, la)), code) :
       SendWith(built(ta, la),
                [timeArg |-> ta, limitArg |-> la,
                 limitCalls |-> IF IsSome(la) THEN 1 ELSE 0], code, late)
  /\ UNCHANGED <<stream, cmd, cmdArgs, reader>>
  /\ UNCHANGED nonRx

\* The builder goes out of scope.
DropCommand ==
  /\ IsSome(cmd)
  /\ cmd' = None
  /\ cmdArgs' = NoArgs
  /\ rxLast' = [op |-> "drop_command", result |-> Ok(Unit), calls |-> <<>>]
  /\ UNCHANGED <<stream, reader, engine, rxGhost>>
  /\ UNCHANGED nonRx

(* ==================== rx_stream.rs: RxStreamReader ===================== *)
\* The timeouts handed to with_timeout, in seconds.
Durations == {1}

\* RxStreamReader::new.
new_reader == [timeout |-> None, one_packet |-> FALSE, metadata |-> FALSE]

\* reader takes &mut self: no command builder and no other reader may be live.
Reader ==
  /\ stream.status = "open"
  /\ reader = None
  /\ cmd = None
  /\ reader' = Some(new_reader)
  /\ rxLast' = [op |-> "reader", result |-> Ok(Unit), calls |-> <<>>]
  /\ UNCHANGED <<stream, cmd, cmdArgs, engine, rxGhost>>
  /\ UNCHANGED nonRx

WithTimeout ==
  /\ IsSome(reader)
  /\ \E d \in Durations : reader' = Some([Unwrap(reader) EXCEPT !.timeout = Some(d)])
  /\ rxLast' = [op |-> "with_timeout", result |-> Ok(Unit), calls |-> <<>>]
  /\ UNCHANGED <<stream, cmd, cmdArgs, engine, rxGhost>>
  /\ UNCHANGED nonRx

WithOnePacket ==
  /\ IsSome(reader)
  /\ \E b \in BOOLEAN : reader' = Some([Unwrap(reader) EXCEPT !.one_packet = b])
  /\ rxLast' = [op |-> "with_one_packet", result |-> Ok(Unit), calls |-> <<>>]
  /\ UNCHANGED <<stream, cmd, cmdArgs, engine, rxGhost>>
  /\ UNCHANGED nonRx

WithMetadataOutput ==
  /\ IsSome(reader)
  /\ reader' = Some([Unwrap(reader) EXCEPT !.metadata = TRUE])
  /\ rxLast' = [op |-> "with_metadata_output", result |-> Ok(Unit), calls |-> <<>>]
  /\ UNCHANGED <<stream, cmd, cmdArgs, engine, rxGhost>>
  /\ UNCHANGED nonRx

\* The shapes of the buffers handed to recv.
BufferShapes == [channels : 0 .. MaxChannels, samples : 0 .. MaxSpb]

\* A shape test that looks at the sample count only.
recv_refuses_samples_only(buff, st) == buff.samples /= st.samples_per_buffer

\* A shape test that looks at the channel count only.
recv_refuses_channels_only(buff, st) == buff.channels /= st.channels

\* The shape test of RxStreamReader::recv: TRUE when the buffer is refused.
recv_refuses(buff, st) ==
  buff.channels /= st.channels \/ buff.samples /= st.samples_per_buffer

\* A recv_raw that turns an error condition of the metadata into an error.
recv_raw_result_md_err(code, received, condition) ==
  IF ~try_uhd(code).ok THEN try_uhd(code)
  ELSE IF condition /= "none" THEN Err("Unknown") ELSE Ok(received)

\* The result of recv_raw for the native code, the count the native call
\* wrote and the error condition it left in the metadata (which is not read).
recv_raw_result(code, received, condition) ==
  IF try_uhd(code).ok THEN Ok(received) ELSE try_uhd(code)

\* self.timeout.unwrap_or(Duration::ZERO)
timeout_arg(r) == IF IsSome(r.timeout) THEN Unwrap(r.timeout) ELSE 0

Exhausted == IsSome(rxGhost.burst) /\ rxGhost.delivered = Unwrap(rxGhost.burst)

\* RxStreamReader::recv of one buffer: the shape test, then recv_unchecked and
\* recv_raw with the native call.
RecvWith(buff) ==
  IF recv_refuses(buff, stream)
    THEN /\ rxLast' = [op |-> "recv", buff |-> buff, result |-> Err("Index"),
                       exhaustedBefore |-> Exhausted, calls |-> <<>>]
         /\ UNCHANGED <<engine, rxGhost>>
    ELSE \E code \in NativeCodes :
         \E n \in (IF try_uhd(code).ok THEN EngineCounts(engine, buff.samples) ELSE {0}) :
         \E cond \in (IF try_uhd(code).ok THEN EngineConditions(engine, n) ELSE {"none"}) :
         LET r == Unwrap(reader)
             okc == try_uhd(code).ok
         IN
         /\ rxLast' = [op |-> "recv", buff |-> buff,
                       result |-> recv_raw_result(code, n, cond),
                       exhaustedBefore |-> Exhausted,
                       calls |-> << [fn |-> "uhd_rx_streamer_recv",
                                     samples_per_channel |-> buff.samples,
                                     metadata |-> r.metadata,
                                     timeout |-> timeout_arg(r),
                                     one_packet |-> r.one_packet,
                                     code |-> code, received |-> n,
                                     condition |-> cond] >>]
         /\ engine' = IF okc THEN EngineAfterRecv(engine, n) ELSE engine
         /\ rxGhost' = IF okc /\ IsSome(rxGhost.burst)
                         THEN [rxGhost EXCEPT !.delivered = @ + n]
                         ELSE rxGhost

Recv ==
  /\ IsSome(reader)
  /\ \E buff \in BufferShapes : RecvWith(buff)
  /\ UNCHANGED <<stream, cmd, cmdArgs, reader>>
  /\ UNCHANGED nonRx

\* The reader goes out of scope; RxStreamReader has no Drop.
DropReader ==
  /\ IsSome(reader)
  /\ reader' = None
  /\ rxLast' = [op |-> "drop_reader", result |-> Ok(Unit), calls |-> <<>>]
  /\ UNCHANGED <<stream, cmd, cmdArgs, engine, rxGhost>>
  /\ UNCHANGED nonRx

(* ================= rx.rs revision: the reader session ================== *)
\* The delays handed to with_delay: whole seconds and quarters of a second.
Delays == { [secs |-> 1, quarters |-> 2] }

\* RxStreamReaderOptions::new.
new_options == [wait_until |-> None, timeout |-> None, one_packet |-> FALSE, limit |-> None]

NoSess == [pc |-> "none", opts |-> None, reader |-> None, log |-> <<>>]

\* RxStream::reader: a session begins with its options.
SessReader ==
  /\ sess.pc \in {"none", "ended", "failed"}
  /\ sess' = [pc |-> "options", opts |-> Some(new_options), reader |-> None, log |-> <<>>]
  /\ sessLast' = [op |-> "reader", result |-> Ok(Unit), calls |-> <<>>]
  /\ UNCHANGED nonSess

SessLimit ==
  /\ sess.pc = "options"
  /\ \E n \in 0 .. MaxLimit, and_done \in BOOLEAN :
       sess' = [sess EXCEPT !.opts = Some([Unwrap(@) EXCEPT !.limit = Some(<<n, and_done>>)])]
  /\ sessLast' = [op |-> "limit", result |-> Ok(Unit), calls |-> <<>>]
  /\ UNCHANGED nonSess

SessWithDelay ==
  /\ sess.pc = "options"
  /\ \E d \in Delays :
       sess' = [sess EXCEPT !.opts = Some([Unwrap(@) EXCEPT !.wait_until = Some(d)])]
  /\ sessLast' = [op |-> "with_delay", result |-> Ok(Unit), calls |-> <<>>]
  /\ UNCHANGED nonSess

SessWithTimeout ==
  /\ sess.pc = "options"
  /\ \E d \in Durations :
       sess' = [sess EXCEPT !.opts = Some([Unwrap(@) EXCEPT !.timeout = Some(d)])]
  /\ sessLast' = [op |-> "with_timeout", result |-> Ok(Unit), calls |-> <<>>]
  /\ UNCHANGED nonSess

SessOnePacket ==
  /\ sess.pc = "options"
  /\ sess' = [sess EXCEPT !.opts = Some([Unwrap(@) EXCEPT !.one_packet = TRUE])]
  /\ sessLast' = [op |-> "one_packet", result |-> Ok(Unit), calls |-> <<>>]
  /\ UNCHANGED nonSess

\* The start command RxStreamReaderOptions::open builds from the options.
open_cmd(o) ==
  [stream_mode |->
     IF IsSome(o.limit)
       THEN (IF Unwrap(o.limit)[2] THEN NUM_SAMPS_AND_DONE ELSE NUM_SAMPS_AND_MORE)
       ELSE START_CONTINUOUS,
   num_samps |-> IF IsSome(o.limit) THEN Unwrap(o.limit)[1] ELSE 0,
   stream_now |-> (o.wait_until = None),
   time_spec_full_secs |-> IF IsSome(o.wait_until) THEN Unwrap(o.wait_until).secs ELSE 0,
   time_spec_frac_secs |-> IF IsSome(o.wait_until) THEN Unwrap(o.wait_until).quarters ELSE 0]

\* RxStreamReaderOptions::open: the reader exists only when the start command
\* was accepted.
SessOpen ==
  /\ sess.pc = "options"
  /\ \E code \in NativeCodes :
       LET o == Unwrap(sess.opts)
           res == try_uhd(code)
       IN
       /\ sess' = IF res.ok
                    THEN [pc |-> "reader", opts |-> None,
                          reader |-> Some([timeout |-> o.timeout, one_packet |-> o.one_packet]),
                          log |-> <<"start_ok">>]
                    ELSE [pc |-> "failed", opts |-> None, reader |-> None,
                          log |-> <<"start_err">>]
       /\ sessLast' = [op |-> "open",
                       result |-> IF res.ok THEN Ok("RxStreamReader") ELSE res,
                       calls |-> << [fn |-> "uhd_rx_streamer_issue_stream_cmd",
                                     cmd |-> open_cmd(o), code |-> code] >>]
  /\ UNCHANGED nonSess

\* The slices handed to recv and send: one length per channel.
RECURSIVE SlicesUpTo(_)
SlicesUpTo(k) ==
  IF k = 0 THEN { <<>> }
  ELSE SlicesUpTo(k - 1) \cup [1 .. k -> 0 .. MaxSpb]

\* The equal-length test of recv (rx.rs) and send (tx.rs): TRUE when refused.
slices_refused(data) ==
  Len(data) > 1 /\ \E i \in DOMAIN data : data[i] /= data[1]

Recvs(log) == Len(SelectSeq(log, LAMBDA e : e \in {"recv_ok", "recv_err", "recv_panic"}))

\* RxStreamReader::recv of the rx.rs revision.  buffs[0] of an empty slice list
\* panics while the arguments of the native call are evaluated.
SessRecv ==
  /\ sess.pc = "reader"
  /\ Recvs(sess.log) < MaxRecv
  /\ \E buffs \in SlicesUpTo(MaxChannels) :
       IF slices_refused(buffs)
         THEN /\ sess' = [sess EXCEPT !.log = Append(@, "recv_err")]
              /\ sessLast' = [op |-> "recv", buffs |-> buffs, result |-> Err("Index"),
                              calls |-> <<>>]
       ELSE IF buffs = <<>>
         THEN /\ sess' = [sess EXCEPT !.log = Append(@, "recv_panic"), !.pc = "unwinding"]
              /\ sessLast' = [op |-> "recv", buffs |-> buffs, result |-> "panic",
                              calls |-> <<>>]
       ELSE \E code \in NativeCodes :
            \E n \in (IF try_uhd(code).ok THEN 0 .. buffs[1] ELSE {0}) :
              LET r == Unwrap(sess.reader)
                  res == IF try_uhd(code).ok THEN Ok(n) ELSE try_uhd(code)
              IN
              /\ sess' = [sess EXCEPT
                            !.log = Append(@, IF res.ok THEN "recv_ok" ELSE "recv_err")]
              /\ sessLast' = [op |-> "recv", buffs |-> buffs, result |-> res,
                              calls |-> << [fn |-> "uhd_rx_streamer_recv",
                                            samples_per_channel |-> buffs[1],
                                            timeout |-> timeout_arg(r),
                                            one_packet |-> r.one_packet,
                                            code |-> code, received |-> n] >>]
  /\ UNCHANGED nonSess

\* The stop command of the reader's Drop.
drop_cmd ==
  [stream_mode |-> STOP_CONTINUOUS, num_samps |-> 0, stream_now |-> FALSE,
   time_spec_full_secs |-> 0, time_spec_frac_secs |-> 0]

\* A Drop that stops the stream only after a session without a failed recv.
reader_drop_cmds_if_ok(log) ==
  IF \E i \in DOMAIN log : log[i] \in {"recv_err", "recv_panic"} THEN <<>> ELSE << drop_cmd >>

\* Drop for RxStreamReader: the commands it issues, for the session's events.
reader_drop_cmds(log) == << drop_cmd >>

\* The reader is dropped: at the end of its scope, or while a panic unwinds.
\* The code the native call returns is not looked at.
SessDrop ==
  /\ sess.pc \in {"reader", "unwinding"}
  /\ \E code \in NativeCodes :
       LET cmds == reader_drop_cmds(sess.log) IN
       /\ sess' = [sess EXCEPT
                     !.pc = "ended",
                     !.reader = None,
                     !.log = @ \o [i \in DOMAIN cmds |->
                                     IF cmds[i].stream_mode = STOP_CONTINUOUS
                                       THEN "stop" ELSE "start_ok"]]
       /\ sessLast' = [op |-> "drop", result |-> Ok(Unit),
                       calls |-> [i \in DOMAIN cmds |->
                                    [fn |-> "uhd_rx_streamer_issue_stream_cmd",
                                     cmd |-> cmds[i], code |-> code]]]
  /\ UNCHANGED nonSess

SessInit ==
  /\ sess = NoSess
  /\ sessLast = [op |-> "init", result |-> Ok(Unit), calls |-> <<>>]

SessNext ==
  \/ SessReader
  \/ SessLimit
  \/ SessWithDelay
  \/ SessWithTimeout
  \/ SessOnePacket
  \/ SessOpen
  \/ SessRecv
  \/ SessDrop

(* ================== tx.rs revision: TxStream::send ===================== *)
\* The metadata records handed to send.
TxMetadatas == [has_time_spec : BOOLEAN, start_of_burst : BOOLEAN, end_of_burst : BOOLEAN]

\* An equal-length test that compares the second slice only.
slices_refused_second_only(data) == Len(data) > 1 /\ data[2] /= data[1]

\* The test at the head of TxStream::send.
send_refused(data) == slices_refused(data)

\* TxMetadataHandle::from_metadata: the native metadata object is made from
\* the record, and the call fails with the translated code when the native
\* side refuses.
from_metadata_calls(md, mk) == << [fn |-> "uhd_tx_metadata_make", md |-> md, code |-> mk] >>

\* The metadata handle leaving scope releases the native metadata object.
metadata_drop_calls == << [fn |-> "uhd_tx_metadata_free"] >>

\* TxStream::send: the shape test, the metadata handle, the native send, and
\* the release of the metadata handle when it goes out of scope.
TxSend ==
  /\ \E data \in SlicesUpTo(MaxChannels + 1), md \in TxMetadatas, timeout \in Durations :
       IF send_refused(data)
         THEN txLast' = [op |-> "send", data |-> data, result |-> Err("Index"), calls |-> <<>>]
       ELSE \E mk \in NativeCodes :
         IF ~try_uhd(mk).ok
           THEN txLast' = [op |-> "send", data |-> data, result |-> try_uhd(mk),
                           calls |-> from_metadata_calls(md, mk)]
         ELSE IF data = <<>>
           THEN txLast' = [op |-> "send", data |-> data, result |-> "panic",
                           calls |-> from_metadata_calls(md, mk) \o metadata_drop_calls]
         ELSE \E code \in NativeCodes :
              \E n \in (IF try_uhd(code).ok THEN 0 .. data[1] ELSE {0}) :
                txLast' = [op |-> "send", data |-> data,
                           result |-> IF try_uhd(code).ok THEN Ok(n) ELSE try_uhd(code),
                           calls |-> from_metadata_calls(md, mk)
                                     \o << [fn |-> "uhd_tx_streamer_send",
                                            samples_per_channel |-> data[1],
                                            timeout |-> timeout, code |-> code, sent |-> n] >>
                                     \o metadata_drop_calls]
  /\ UNCHANGED nonTx

TxInit == txLast = [op |-> "init", result |-> Ok(Unit), calls |-> <<>>]

TxNext == TxSend

(* ========================= ffi.rs: OwnedHandle ========================= *)
\* Number of OwnedHandle values followed.
MaxHandles == 3

NoHandle == [state |-> "absent", via |-> "none", frees |-> 0]

\* An OwnedHandle::new that wraps the pointer whatever the allocator reports.
owned_handle_new_unchecked(code) ==
  Ok([state |-> "live", via |-> "new", frees |-> 0])

\* OwnedHandle::new: the allocator's code is checked before the value is built.
owned_handle_new(code) ==
  IF try_uhd(code).ok
    THEN Ok([state |-> "live", via |-> "new", frees |-> 0])
    ELSE try_uhd(code)

\* OwnedHandle::from_ptr.
owned_handle_from_ptr == [state |-> "live", via |-> "from_ptr", frees |-> 0]

\* A Drop that forgets the handle: the release function is never called.
owned_handle_drop_leak(h, code) == [h EXCEPT !.state = "dropped"]

\* Drop for OwnedHandle: the release function is called once and what it
\* returns is discarded.
owned_handle_drop(h, code) == [h EXCEPT !.state = "dropped", !.frees = @ + 1]

HandleNew ==
  /\ \E id \in 1 .. MaxHandles, code \in NativeCodes :
       LET res == owned_handle_new(code) IN
       /\ handles[id].state = "absent"
       /\ handles' = [handles EXCEPT ![id] =
                        IF res.ok THEN res.val
                        ELSE [state |-> "failed", via |-> "new", frees |-> 0]]
       /\ hLast' = [op |-> "new", id |-> id, code |-> code, result |-> res]
  /\ UNCHANGED nonH

HandleFromPtr ==
  /\ \E id \in 1 .. MaxHandles :
       /\ handles[id].state = "absent"
       /\ handles' = [handles EXCEPT ![id] = owned_handle_from_ptr]
       /\ hLast' = [op |-> "from_ptr", id |-> id, code |-> "UHD_ERROR_NONE",
                    result |-> Ok(owned_handle_from_ptr)]
  /\ UNCHANGED nonH

\* A value is dropped once, by its owner: only a live handle can be dropped.
HandleDrop ==
  /\ \E id \in 1 .. MaxHandles, code \in NativeCodes :
       /\ handles[id].state = "live"
       /\ handles' = [handles EXCEPT ![id] = owned_handle_drop(@, code)]
       /\ hLast' = [op |-> "drop", id |-> id, code |-> code, result |-> Ok(Unit)]
  /\ UNCHANGED nonH

HInit ==
  /\ handles = [id \in 1 .. MaxHandles |-> NoHandle]
  /\ hLast = [op |-> "init", id |-> 0, code |-> "UHD_ERROR_NONE", result |-> Ok(Unit)]

HNext ==
  \/ HandleNew
  \/ HandleFromPtr
  \/ HandleDrop

(* ===================== error.rs: UhdError::from_sys ==================== *)
\* The enum UhdError: the native code each kind is declared with (`as u32`).
discriminant(kind) ==
  CASE kind = "InvalidDevice"  -> "UHD_ERROR_INVALID_DEVICE"
    [] kind = "Index"          -> "UHD_ERROR_INDEX"
    [] kind = "Key"            -> "UHD_ERROR_KEY"
    [] kind = "NotImplemented" -> "UHD_ERROR_NOT_IMPLEMENTED"
    [] kind = "Usb"            -> "UHD_ERROR_USB"
    [] kind = "Io"             -> "UHD_ERROR_IO"
    [] kind = "Os"             -> "UHD_ERROR_OS"
    [] kind = "Assertion"      -> "UHD_ERROR_ASSERTION"
    [] kind = "Lookup"         -> "UHD_ERROR_LOOKUP"
    [] kind = "Type"           -> "UHD_ERROR_TYPE"
    [] kind = "Value"          -> "UHD_ERROR_VALUE"
    [] kind = "Runtime"        -> "UHD_ERROR_RUNTIME"
    [] kind = "Environment"    -> "UHD_ERROR_ENVIRONMENT"
    [] kind = "System"         -> "UHD_ERROR_SYSTEM"
    [] kind = "Except"         -> "UHD_ERROR_EXCEPT"
    [] kind = "BoostExcept"    -> "UHD_ERROR_BOOSTEXCEPT"
    [] kind = "StdExcept"      -> "UHD_ERROR_STDEXCEPT"
    [] kind = "Unknown"        -> "UHD_ERROR_UNKNOWN"

\* The u32 values handed to from_sys: every named code and two without a name.
SysCodes == NamedCodes \cup { UnnamedCode, "0xffffffff" }

NoErrs == [op |-> "init"]

\* One use of try_uhd! on a native return code; the translation before it is
\* remembered.
FromSys ==
  /\ \E e \in SysCodes :
       errs' = [op |-> "from_sys", code |-> e, kind |-> from_sys(e),
                tried |-> try_uhd(e),
                prev |-> IF errs.op = "init" THEN None
                         ELSE Some([code |-> errs.code, kind |-> errs.kind])]
  /\ UNCHANGED nonErr

ErrInit == errs = NoErrs
ErrNext == FromSys

(* ========================== ffi.rs: FfiString ========================== *)
\* Longest buffer of the model.
MaxStrLen == 3

\* The bytes the native side writes: NUL, 'A', the two bytes of U+00E9, and a
\* byte that occurs in no UTF-8 text.
StrBytes == { 0, 65, 195, 169, 255 }

\* Width of the UTF-8 sequence a leading byte announces; 0 for no leading byte.
utf8_char_width(b) ==
  CASE b < 128 -> 1
    [] b >= 194 /\ b <= 223 -> 2
    [] b >= 224 /\ b <= 239 -> 3
    [] b >= 240 /\ b <= 244 -> 4
    [] OTHER -> 0

IsCont(b) == b >= 128 /\ b <= 191
\* The byte at position i, or 0 past the end (safe_get).
At(s, i) == IF i <= Len(s) THEN s[i] ELSE 0

Second3(b0, b1) ==
  \/ (b0 = 224 /\ b1 >= 160 /\ b1 <= 191)
  \/ (b0 >= 225 /\ b0 <= 236 /\ IsCont(b1))
  \/ (b0 = 237 /\ b1 >= 128 /\ b1 <= 159)
  \/ (b0 >= 238 /\ b0 <= 239 /\ IsCont(b1))

Second4(b0, b1) ==
  \/ (b0 = 240 /\ b1 >= 144 /\ b1 <= 191)
  \/ (b0 >= 241 /\ b0 <= 243 /\ IsCont(b1))
  \/ (b0 = 244 /\ b1 >= 128 /\ b1 <= 143)

\* The first chunk of a non-empty byte string: <<TRUE, n>> for a character of
\* n bytes, <<FALSE, n>> for n bytes that belong to no character.
Utf8Step(s) ==
  LET b == s[1]
      w == utf8_char_width(b)
  IN
  CASE w = 1 -> <<TRUE, 1>>
    [] w = 2 -> IF IsCont(At(s, 2)) THEN <<TRUE, 2>> ELSE <<FALSE, 1>>
    [] w = 3 -> IF ~Second3(b, At(s, 2)) THEN <<FALSE, 1>>
                ELSE IF ~IsCont(At(s, 3)) THEN <<FALSE, 2>>
                ELSE <<TRUE, 3>>
    [] w = 4 -> IF ~Second4(b, At(s, 2)) THEN <<FALSE, 1>>
                ELSE IF ~IsCont(At(s, 3)) THEN <<FALSE, 2>>
                ELSE IF ~IsCont(At(s, 4)) THEN <<FALSE, 3>>
                ELSE <<TRUE, 4>>
    [] OTHER -> <<FALSE, 1>>

\* U+FFFD REPLACEMENT CHARACTER, in UTF-8.
REPLACEMENT == << 239, 191, 189 >>

RECURSIVE to_string_lossy(_)
\* CStr::to_string_lossy: the text, as its UTF-8 bytes; every run of bytes that
\* belongs to no character becomes one replacement character.
to_string_lossy(s) ==
  IF s = <<>> THEN <<>>
  ELSE LET st == Utf8Step(s)
           rest == SubSeq(s, st[2] + 1, Len(s))
       IN (IF st[1] THEN SubSeq(s, 1, st[2]) ELSE REPLACEMENT) \o to_string_lossy(rest)

RECURSIVE is_utf8(_)
\* Whether the bytes are UTF-8 text.
is_utf8(s) ==
  IF s = <<>> THEN TRUE
  ELSE Utf8Step(s)[1] /\ is_utf8(SubSeq(s, Utf8Step(s)[2] + 1, Len(s)))

\* Position of the first NUL of the buffer, 0 when it holds none.
first_nul(s) ==
  IF \E i \in DOMAIN s : s[i] = 0
    THEN CHOOSE i \in DOMAIN s : s[i] = 0 /\ \A j \in 1 .. (i - 1) : s[j] /= 0
    ELSE 0

\* CStr::from_bytes_until_nul: the bytes before the first NUL, or an error.
from_bytes_until_nul(s) ==
  IF first_nul(s) = 0 THEN Err("FromBytesUntilNulError")
  ELSE Ok(SubSeq(s, 1, first_nul(s) - 1))

\* FfiString::into_string.
into_string(s) ==
  IF ~from_bytes_until_nul(s).ok THEN Err("Unknown")
  ELSE Ok(to_string_lossy(from_bytes_until_nul(s).val))

NoStr == [pc |-> "none", s |-> <<>>, result |-> None]

\* FfiString::with_capacity: len zero bytes (len = 0 fails the assertion).
StrWithCapacity ==
  /\ ffiStr.pc \in {"none", "done"}
  /\ \E len \in 0 .. MaxStrLen :
       ffiStr' = IF len = 0 THEN [pc |-> "done", s |-> <<>>, result |-> Some("panic")]
                 ELSE [pc |-> "buffer", s |-> [i \in 1 .. len |-> 0], result |-> None]
  /\ UNCHANGED nonStr

\* The native call that was handed as_mut_ptr and max_chars fills the buffer.
StrNativeWrite ==
  /\ ffiStr.pc = "buffer"
  /\ \E bytes \in [1 .. Len(ffiStr.s) -> StrBytes] :
       ffiStr' = [ffiStr EXCEPT !.s = bytes, !.pc = "written"]
  /\ UNCHANGED nonStr

StrIntoString ==
  /\ ffiStr.pc \in {"buffer", "written"}
  /\ ffiStr' = [ffiStr EXCEPT !.pc = "done", !.result = Some(into_string(ffiStr.s))]
  /\ UNCHANGED nonStr

StrInit == ffiStr = NoStr
StrNext ==
  \/ StrWithCapacity
  \/ StrNativeWrite
  \/ StrIntoString

(* ================ buffer/arraybuffer.rs: ArrayBuffer =================== *)
\* Largest channel count and samples per channel asked of a constructor.
MaxBufChannels == 2
MaxBufSamples == 2
\* Longest flat sequence handed to from_vec_samples.
MaxFlat == 4
\* Most writes made to the buffers of one run.
MaxWrites == 1

\* The sample values.
SampleVals == { 0, 1 }

\* An allocation: a boxed slice of samples, or the boxed slice of pointers.
SampleBox(cells) == [kind |-> "samples", cells |-> cells]
PtrBox(cells) == [kind |-> "ptrs", cells |-> cells]

\* The struct literal `Self { inner, channels, samples }`, where inner collects
\* one leaked boxed slice per element of chans.
build(h, chans, channels, samples) ==
  LET n == Len(h)
      h1 == h \o [i \in 1 .. Len(chans) |-> SampleBox(chans[i])]
      h2 == h1 \o << PtrBox([i \in 1 .. Len(chans) |-> n + i]) >>
  IN [panic |-> FALSE, heap |-> h2,
      buf |-> [inner |-> Len(h2), channels |-> channels, samples |-> samples]]

Panic(msg) == [panic |-> TRUE, msg |-> msg]

\* A with_fill that allocates one channel too few.
with_fill_short(h, channels, samples, fill) ==
  build(h, [i \in 1 .. (IF channels > 0 THEN channels - 1 ELSE 0) |->
              [j \in 1 .. samples |-> fill]], channels, samples)

\* ArrayBuffer::with_fill.
with_fill(h, channels, samples, fill) ==
  build(h, [i \in 1 .. channels |-> [j \in 1 .. samples |-> fill]], channels, samples)

\* ArrayBuffer::new: with_fill with the default sample.
new_buffer(h, channels, samples) == with_fill(h, channels, samples, 0)

\* ArrayBuffer::uninit: the samples are whatever the memory held.
uninit(h, channels, samples, garbage) == build(h, garbage, channels, samples)

\* <[T]>::chunks: consecutive pieces of n elements, the last one shorter when
\* n does not divide the length.
chunks(value, n) ==
  LET k == (Len(value) + n - 1) \div n
  IN [i \in 1 .. k |->
        SubSeq(value, (i - 1) * n + 1, IF i * n < Len(value) THEN i * n ELSE Len(value))]

\* A from_vec_samples without the test of divisibility.
from_vec_samples_unchecked(h, channels, value) ==
  IF channels = 0 THEN Panic("attempt to calculate the remainder with a divisor of zero")
  ELSE IF Len(value) \div channels = 0 THEN Panic("chunk size must be non-zero")
  ELSE build(h, chunks(value, Len(value) \div channels), channels,
             Len(value) \div channels)

\* ArrayBuffer::from_vec_samples.
from_vec_samples(h, channels, value) ==
  IF channels = 0 THEN Panic("attempt to calculate the remainder with a divisor of zero")
  ELSE IF Len(value) % channels /= 0 THEN Panic("mismatched channel buffer lengths")
  ELSE IF Len(value) \div channels = 0 THEN Panic("chunk size must be non-zero")
  ELSE build(h, chunks(value, Len(value) \div channels), channels,
             Len(value) \div channels)

\* ArrayBuffer::from_iter_samples: the iterator is collected first.
from_iter_samples(h, channels, iter) == from_vec_samples(h, channels, iter)

\* ArrayBuffer::from_vec_channels.
from_vec_channels(h, value) ==
  LET channels == Len(value)
      samples == IF Len(value) > 0 THEN Len(value[1]) ELSE 0
  IN IF \E i \in 2 .. Len(value) : Len(value[i]) /= samples
       THEN Panic("mismatched channel buffer lengths")
       ELSE build(h, value, channels, samples)

\* std::slice::from_raw_parts(p, n): the n samples at address p.
from_raw_parts(h, p, n) == [k \in 1 .. n |-> h[p].cells[k]]

\* self.inner, the boxed slice of channel pointers.
inner_of(h, b) == h[b.inner].cells

\* ArrayBuffer::iter_channels, as the sequence of the slices it yields.
iter_channels(h, b) ==
  [i \in 1 .. Len(inner_of(h, b)) |-> from_raw_parts(h, inner_of(h, b)[i], b.samples)]

RECURSIVE flatten(_)
\* Iterator::flatten over a sequence of slices.
flatten(ss) == IF ss = <<>> THEN <<>> ELSE Head(ss) \o flatten(Tail(ss))

\* A flat copy that walks the samples first and the channels second.
to_flat_vec_interleaved(h, b) ==
  flatten([j \in 1 .. b.samples |->
             [i \in 1 .. Len(inner_of(h, b)) |-> iter_channels(h, b)[i][j]]])

\* ArrayBuffer::to_flat_vec.
to_flat_vec(h, b) == flatten(iter_channels(h, b))

\* ArrayBuffer::iter_samples, as the sequence it yields.
iter_samples(h, b) == flatten(iter_channels(h, b))

\* ArrayBuffer::to_vec.
to_vec(h, b) == iter_channels(h, b)

\* ArrayBuffer::into_vec: every channel pointer becomes a Vec of samples
\* elements.
into_vec(h, b) ==
  [i \in 1 .. Len(inner_of(h, b)) |-> from_raw_parts(h, inner_of(h, b)[i], b.samples)]

\* ArrayBuffer::channel / channel_mut, channel counted from 0.
channel(h, b, ch) ==
  IF ch < Len(inner_of(h, b))
    THEN Some(from_raw_parts(h, inner_of(h, b)[ch + 1], b.samples))
    ELSE None

\* ArrayBuffer::iter_samples_mut, as the places it yields: the address of a
\* channel region and the position in it, counted from 1.
iter_samples_mut(h, b) ==
  flatten([i \in 1 .. Len(inner_of(h, b)) |->
             [j \in 1 .. b.samples |-> << inner_of(h, b)[i], j >>]])

\* ArrayBuffer::iter_channels_mut, as the regions it yields.
iter_channels_mut(h, b) == inner_of(h, b)

\* PartialEq for ArrayBuffer.
eq(h, a, b) ==
  /\ a.channels = b.channels
  /\ a.samples = b.samples
  /\ \A i \in 1 .. Len(inner_of(h, a)) :
       (i <= Len(inner_of(h, b))) => iter_channels(h, a)[i] = iter_channels(h, b)[i]

\* Clone for ArrayBuffer.
clone(h, b) == from_vec_channels(h, to_vec(h, b))

\* The heap after the places of seq ps were written with the values of vals.
RECURSIVE write_all(_, _, _)
write_all(h, ps, vals) ==
  IF ps = <<>> THEN h
  ELSE write_all([h EXCEPT ![Head(ps)[1]].cells[Head(ps)[2]] = Head(vals)],
                 Tail(ps), Tail(vals))

FlatSeqs == UNION { [1 .. n -> SampleVals] : n \in 0 .. MaxFlat }
ChannelVecs == UNION { [1 .. n -> SampleVals] : n \in 0 .. MaxBufSamples }
NestedVecs == UNION { [1 .. c -> ChannelVecs] : c \in 0 .. MaxBufChannels }
\* The values a caller writes through iter_samples_mut: all 0, or one 1.
Patterns(n) ==
  { [k \in 1 .. n |-> 0] } \cup { [k \in 1 .. n |-> IF k = p THEN 1 ELSE 0] : p \in 1 .. n }

NotMade == [by |-> "none", writes |-> 0]

\* A write may follow a constructor or a write; the reads of a buffer come last.
Writable ==
  /\ abMade.writes < MaxWrites
  /\ abLast.op \notin {"views", "into_vec", "eq", "round_trip", "as_ptr"}

\* A constructor returned r (or panicked) for the given arguments.
Made(by, r, channels, samples, input) ==
  /\ heap' = IF r.panic THEN heap ELSE r.heap
  /\ abuf' = IF r.panic THEN None ELSE Some(r.buf)
  /\ abMade' = [by |-> by, channels |-> channels, samples |-> samples,
                input |-> input, writes |-> 0]
  /\ abLast' = [op |-> by, panic |-> r.panic]
  /\ UNCHANGED <<abuf2, sbuf>>
  /\ UNCHANGED nonBuf

AbNew ==
  /\ abMade.by = "none"
  /\ \E ch \in 0 .. MaxBufChannels, n \in 0 .. MaxBufSamples :
       Made("new", new_buffer(heap, ch, n), ch, n, <<>>)

AbWithFill ==
  /\ abMade.by = "none"
  /\ \E ch \in 0 .. MaxBufChannels, n \in 0 .. MaxBufSamples, fill \in SampleVals :
       Made("with_fill", with_fill(heap, ch, n, fill), ch, n, <<>>)

AbUninit ==
  /\ abMade.by = "none"
  /\ \E ch \in 0 .. MaxBufChannels, n \in 0 .. MaxBufSamples :
       \E garbage \in [1 .. ch -> [1 .. n -> SampleVals]] :
         Made("uninit", uninit(heap, ch, n, garbage), ch, n, <<>>)

AbFromVecSamples ==
  /\ abMade.by = "none"
  /\ \E ch \in 0 .. MaxBufChannels, value \in FlatSeqs :
       Made("from_vec_samples", from_vec_samples(heap, ch, value), ch, 0, value)

AbFromIterSamples ==
  /\ abMade.by = "none"
  /\ \E ch \in 0 .. MaxBufChannels, value \in FlatSeqs :
       Made("from_iter_samples", from_iter_samples(heap, ch, value), ch, 0, value)

AbFromVecChannels ==
  /\ abMade.by = "none"
  /\ \E value \in NestedVecs :
       Made("from_vec_channels", from_vec_channels(heap, value), 0, 0, value)

\* buff[ch][j] = v on the first or the second buffer: index_mut panics for a
\* channel out of bounds, and the slice for a sample out of bounds.
AbIndexMut ==
  /\ Writable
  /\ \E on \in {1, 2}, ch \in 0 .. MaxBufChannels, j \in 0 .. MaxBufSamples, v \in SampleVals :
       LET target == IF on = 1 THEN abuf ELSE abuf2 IN
       /\ target /= None
       /\ LET b == Unwrap(target)
              panics == channel(heap, b, ch) = None \/ j >= b.samples
          IN
          /\ heap' = IF panics THEN heap
                     ELSE [heap EXCEPT ![inner_of(heap, b)[ch + 1]].cells[j + 1] = v]
          /\ abLast' = [op |-> "index_mut", on |-> on, panic |-> panics,
                        first |-> IF abuf = None THEN None ELSE Some(to_vec(heap, Unwrap(abuf)))]
  /\ abMade' = [abMade EXCEPT !.writes = @ + 1]
  /\ UNCHANGED <<abuf, abuf2, sbuf>>
  /\ UNCHANGED nonBuf

\* if let Some(c) = buff.channel_mut(ch) { c[0] = v }
AbChannelMut ==
  /\ Writable
  /\ abuf /= None
  /\ \E ch \in 0 .. MaxBufChannels, v \in SampleVals :
       LET b == Unwrap(abuf)
           some == channel(heap, b, ch) /= None
           panics == some /\ b.samples = 0
       IN
       /\ heap' = IF some /\ ~panics
                    THEN [heap EXCEPT ![inner_of(heap, b)[ch + 1]].cells[1] = v]
                    ELSE heap
       /\ abLast' = [op |-> "channel_mut", some |-> some, panic |-> panics]
  /\ abMade' = [abMade EXCEPT !.writes = @ + 1]
  /\ UNCHANGED <<abuf, abuf2, sbuf>>
  /\ UNCHANGED nonBuf

\* buff.iter_channels_mut().for_each(|c| c.fill(v))
AbIterChannelsMut ==
  /\ Writable
  /\ abuf /= None
  /\ \E v \in SampleVals :
       LET b == Unwrap(abuf)
           regions == iter_channels_mut(heap, b)
       IN
       /\ heap' = [a \in DOMAIN heap |->
                     IF \E i \in DOMAIN regions : regions[i] = a
                       THEN SampleBox([k \in 1 .. b.samples |-> v])
                       ELSE heap[a]]
       /\ abLast' = [op |-> "iter_channels_mut", panic |-> FALSE]
  /\ abMade' = [abMade EXCEPT !.writes = @ + 1]
  /\ UNCHANGED <<abuf, abuf2, sbuf>>
  /\ UNCHANGED nonBuf

\* buff.iter_samples_mut().zip(vals).for_each(|(s, v)| *s = v)
AbIterSamplesMut ==
  /\ Writable
  /\ abuf /= None
  /\ LET b == Unwrap(abuf)
         places == iter_samples_mut(heap, b)
     IN \E vals \in Patterns(Len(places)) :
          /\ heap' = write_all(heap, places, vals)
          /\ abLast' = [op |-> "iter_samples_mut", panic |-> FALSE, vals |-> vals]
  /\ abMade' = [abMade EXCEPT !.writes = @ + 1]
  /\ UNCHANGED <<abuf, abuf2, sbuf>>
  /\ UNCHANGED nonBuf

\* The read-only views of the first buffer, taken one after the other.
AbViews ==
  /\ abuf /= None
  /\ LET b == Unwrap(abuf) IN
     abLast' = [op |-> "views", panic |-> FALSE,
                channels |-> b.channels, samples |-> b.samples,
                inner_len |-> Len(inner_of(heap, b)),
                channel_lens |-> [i \in DOMAIN iter_channels(heap, b) |->
                                    Len(iter_channels(heap, b)[i])],
                iter_samples |-> iter_samples(heap, b),
                iter_samples_mut |-> iter_samples_mut(heap, b),
                to_flat_vec |-> to_flat_vec(heap, b),
                to_vec |-> to_vec(heap, b)]
  /\ UNCHANGED <<heap, abuf, abuf2, sbuf, abMade>>
  /\ UNCHANGED nonBuf

\* let flat = buff.to_flat_vec(); let v = buff.into_vec();
\* A deallocation: the address, the layout it is made with, whether the
\* address is an allocation (an empty boxed slice or vector is none: its
\* pointer dangles), and whether the layout is the one of the allocation.
Dealloc(addr, allocated, layout_ok) ==
  [addr |-> addr, allocated |-> allocated, layout_ok |-> layout_ok]
Allocated(h, addr) == Len(h[addr].cells) > 0

\* into_vec: the regions go to the returned vectors (Vec::from_raw_parts),
\* self is never dropped (ManuallyDrop), and the pointer array taken out of
\* it is dropped when the function returns.
into_vec_regions(h, b) == { inner_of(h, b)[i] : i \in 1 .. Len(inner_of(h, b)) }
into_vec_releases(h, b) ==
  IF Allocated(h, b.inner) THEN << Dealloc(b.inner, TRUE, TRUE) >> ELSE << >>

AbIntoVec ==
  /\ abuf /= None
  /\ abuf2 = None
  /\ LET b == Unwrap(abuf) IN
     /\ abLast' = [op |-> "into_vec", panic |-> FALSE,
                   to_flat_vec |-> to_flat_vec(heap, b),
                   result |-> into_vec(heap, b)]
     /\ vecs' = vecs \cup into_vec_regions(heap, b)
     /\ released' = released \o into_vec_releases(heap, b)
  /\ abuf' = None
  /\ UNCHANGED <<heap, abuf2, sbuf, abMade>>
  /\ UNCHANGED nonBufLife

AbClone ==
  /\ abuf /= None
  /\ abuf2 = None
  /\ LET r == clone(heap, Unwrap(abuf)) IN
     /\ heap' = r.heap
     /\ abuf2' = Some(r.buf)
     /\ abLast' = [op |-> "clone", panic |-> FALSE,
                   equal |-> eq(r.heap, Unwrap(abuf), r.buf)]
  /\ UNCHANGED <<abuf, sbuf, abMade>>
  /\ UNCHANGED nonBuf

\* A second buffer made on its own.
AbOther ==
  /\ abuf /= None
  /\ abuf2 = None
  /\ \E ch \in 0 .. MaxBufChannels, n \in 0 .. MaxBufSamples, fill \in SampleVals :
       LET r == with_fill(heap, ch, n, fill) IN
       /\ heap' = r.heap
       /\ abuf2' = Some(r.buf)
       /\ abLast' = [op |-> "other", panic |-> FALSE]
  /\ UNCHANGED <<abuf, sbuf, abMade>>
  /\ UNCHANGED nonBuf

\* first == second
AbEq ==
  /\ abuf /= None
  /\ abuf2 /= None
  /\ abLast' = [op |-> "eq", panic |-> FALSE,
                result |-> eq(heap, Unwrap(abuf), Unwrap(abuf2))]
  /\ UNCHANGED <<heap, abuf, abuf2, sbuf, abMade>>
  /\ UNCHANGED nonBuf

\* ArrayBuffer::from_vec_samples(buff.channels(), buff.to_flat_vec()) == buff
AbRoundTrip ==
  /\ abuf /= None
  /\ LET b == Unwrap(abuf)
         r == from_vec_samples(heap, b.channels, to_flat_vec(heap, b))
     IN abLast' = [op |-> "round_trip", panic |-> r.panic,
                   equal |-> IF r.panic THEN FALSE ELSE eq(r.heap, r.buf, b)]
  /\ UNCHANGED <<heap, abuf, abuf2, sbuf, abMade>>
  /\ UNCHANGED nonBuf

(* ================== buffer/mod.rs: SampleBuffer views ================== *)
\* SampleBuffer::as_ptr / as_mut_ptr of ArrayBuffer: the address of the boxed
\* slice of channel pointers.
as_ptr(h, b) == b.inner

\* SampleBuffer::as_ptr / as_mut_ptr of [S]: the address of the slice's own
\* samples, cast to a pointer to pointers.
slice_as_ptr(sl) == sl.ptr

\* SampleBuffer::channels and channel(0) of [S]: one channel, the slice itself.
slice_channels(sl) == 1
slice_first_samples(sl) == << sl.ptr >>

\* The address of the first sample of every channel(i) of an ArrayBuffer.
first_samples(h, b) == [i \in 1 .. b.channels |-> inner_of(h, b)[i]]

\* The channel pointers the native transfer call reads at address p, one per
\* channel: the elements of a pointer array; anything else read as a pointer,
\* or read past the end of the array, is the address of no channel.
native_reads(h, p, channels) ==
  [i \in 1 .. channels |->
     IF h[p].kind = "ptrs" /\ i <= Len(h[p].cells) THEN h[p].cells[i] ELSE "wild"]

\* let data: &mut [S] = ...: a slice to be used as a one-channel buffer.
SliceMake ==
  /\ abMade.by = "none"
  /\ \E data \in ChannelVecs :
       /\ heap' = heap \o << SampleBox(data) >>
       /\ sbuf' = Some([ptr |-> Len(heap) + 1, len |-> Len(data)])
       /\ abMade' = [by |-> "slice", channels |-> 1, samples |-> Len(data),
                     input |-> data, writes |-> 0]
       /\ abLast' = [op |-> "slice", panic |-> FALSE]
  /\ UNCHANGED <<abuf, abuf2>>
  /\ UNCHANGED nonBuf

\* The pointer an ArrayBuffer hands to a native transfer call.
AbAsPtr ==
  /\ abuf /= None
  /\ LET b == Unwrap(abuf) IN
     abLast' = [op |-> "as_ptr", of |-> "ArrayBuffer", panic |-> FALSE,
                channels |-> b.channels,
                ptr |-> as_ptr(heap, b), mut_ptr |-> as_ptr(heap, b),
                first |-> first_samples(heap, b),
                native |-> native_reads(heap, as_ptr(heap, b), b.channels)]
  /\ UNCHANGED <<heap, abuf, abuf2, sbuf, abMade>>
  /\ UNCHANGED nonBuf

\* The pointer a slice hands to a native transfer call.
SliceAsPtr ==
  /\ sbuf /= None
  /\ LET sl == Unwrap(sbuf) IN
     abLast' = [op |-> "as_ptr", of |-> "[S]", panic |-> FALSE,
                channels |-> slice_channels(sl),
                ptr |-> slice_as_ptr(sl), mut_ptr |-> slice_as_ptr(sl),
                first |-> slice_first_samples(sl),
                native |-> native_reads(heap, slice_as_ptr(sl), slice_channels(sl))]
  /\ UNCHANGED <<heap, abuf, abuf2, sbuf, abMade>>
  /\ UNCHANGED nonBuf

BufInit ==
  /\ heap = <<>>
  /\ abuf = None
  /\ abuf2 = None
  /\ sbuf = None
  /\ abMade = NotMade
  /\ abLast = [op |-> "init", panic |-> FALSE]

BufNext ==
  \/ AbNew
  \/ AbWithFill
  \/ AbUninit
  \/ AbFromVecSamples
  \/ AbFromIterSamples
  \/ AbFromVecChannels
  \/ AbIndexMut
  \/ AbChannelMut
  \/ AbIterChannelsMut
  \/ AbIterSamplesMut
  \/ AbViews
  \/ AbIntoVec
  \/ AbRoundTrip
  \/ AbAsPtr
  \/ SliceMake
  \/ SliceAsPtr

\* Two buffers: the first filled or from nested vectors, the second its clone or a
\* buffer made on its own.
PairNext ==
  \/ AbWithFill
  \/ AbFromVecChannels
  \/ AbIndexMut
  \/ AbClone
  \/ AbOther
  \/ AbEq

(* =========================== specifications ============================ *)
RxInit ==
  /\ stream = NoStream
  /\ cmd = None
  /\ cmdArgs = NoArgs
  /\ reader = None
  /\ engine = EngineIdle
  /\ rxGhost = GhostInit
  /\ rxLast = [op |-> "init", result |-> Ok(Unit), calls |-> <<>>]

\* The receive stream: open, start and stop commands, reader, recv, drop.
RxNext ==
  \/ BuilderOpen
  \/ StartStream
  \/ StopNow
  \/ Reader
  \/ WithTimeout
  \/ WithOnePacket
  \/ WithMetadataOutput
  \/ Recv
  \/ DropReader
  \/ DropStream

\* The command builder on a stream that was opened: its calls one at a time.
CmdInit ==
  /\ stream \in [status : {"open"}, channels : 1 .. MaxChannels,
                 samples_per_buffer : 1 .. MaxSpb]
  /\ cmd = None
  /\ cmdArgs = NoArgs
  /\ reader = None
  /\ engine = EngineIdle
  /\ rxGhost = GhostInit
  /\ rxLast = [op |-> "open", result |-> Ok("RxStream"), calls |-> <<>>]

CmdNext ==
  \/ StartCommand
  \/ WithTime
  \/ WithLimit
  \/ Send
  \/ DropCommand

(* ============================ time.rs ================================== *)
\* The whole-seconds field is an i64 and the fraction an f64.  Both keep
\* their shape at a reduced width: IntBits bits of two's complement, and a
\* binary floating-point format of MantBits significant bits whose smallest
\* step is 2^-FracBits, rounding to nearest with ties to even.
IntBits == 4
MantBits == 2
FracBits == 3

I64_MIN == -(2^(IntBits - 1))
I64_MAX == 2^(IntBits - 1) - 1
\* i64::checked_add / checked_sub.
checked_add_i64(a, b) ==
  IF a + b < I64_MIN \/ a + b > I64_MAX THEN None ELSE Some(a + b)
checked_sub_i64(a, b) ==
  IF a - b < I64_MIN \/ a - b > I64_MAX THEN None ELSE Some(a - b)
\* Negation of an i64: the one value without a negative overflows, which
\* panics in a build with overflow checks and wraps in one without.
neg_i64(a, mode) ==
  IF a = I64_MIN THEN (IF mode = "checked" THEN None ELSE Some(I64_MIN))
  ELSE Some(-a)

\* A finite float is the integer count of 2^-FracBits steps it is worth.
FracUnit == 2^FracBits
Fin(n) == [k |-> "fin", v |-> n]
NaN == [k |-> "nan", v |-> 0]
Inf(sgn) == [k |-> "inf", v |-> sgn]
\* The largest finite magnitude, far above the range of the integer field.
MaxFinite == 2^(2 * IntBits) * FracUnit
Abs(n) == IF n < 0 THEN -n ELSE n
Sgn(n) == IF n < 0 THEN -1 ELSE 1

RECURSIVE BitLen(_)
BitLen(n) == IF n = 0 THEN 0 ELSE 1 + BitLen(n \div 2)

\* The magnitude m, counted in steps of 2^-k (k >= FracBits), rounded to the
\* nearest float; the result is counted in steps of 2^-FracBits.
RoundMag(m, k) ==
  LET base == 2^(k - FracBits)
      bl == BitLen(m)
      sp0 == IF bl > MantBits THEN 2^(bl - MantBits) ELSE 1
      sp == IF sp0 < base THEN base ELSE sp0
      q == m \div sp
      r == m % sp
      up == (2 * r > sp) \/ (2 * r = sp /\ q % 2 = 1)
  IN  ((IF up THEN q + 1 ELSE q) * sp) \div base
Round(num, k) ==
  LET mag == RoundMag(Abs(num), k)
  IN  IF mag > MaxFinite THEN Inf(Sgn(num)) ELSE Fin(Sgn(num) * mag)

is_nan(x) == x.k = "nan"
is_infinite(x) == x.k = "inf"
f_neg(x) == IF x.k = "nan" THEN NaN ELSE [k |-> x.k, v |-> -x.v]
f_add(x, y) ==
  CASE x.k = "nan" \/ y.k = "nan" -> NaN
    [] x.k = "inf" /\ y.k = "inf" -> IF x.v = y.v THEN x ELSE NaN
    [] x.k = "inf" -> x
    [] y.k = "inf" -> y
    [] OTHER -> Round(x.v + y.v, FracBits)
f_sub(x, y) == f_add(x, f_neg(y))
f_mul(x, y) ==
  CASE x.k = "nan" \/ y.k = "nan" -> NaN
    [] x.k = "inf" \/ y.k = "inf" ->
         IF x.v = 0 \/ y.v = 0 THEN NaN ELSE Inf(Sgn(x.v) * Sgn(y.v))
    [] OTHER -> Round(x.v * y.v, 2 * FracBits)
\* The quotient keeps two extra bits and a sticky bit for the remainder, which
\* is all that rounding to nearest needs.
f_div(x, y) ==
  CASE x.k = "nan" \/ y.k = "nan" -> NaN
    [] x.k = "inf" -> IF y.k = "inf" THEN NaN ELSE Inf(x.v * Sgn(y.v))
    [] y.k = "inf" -> Fin(0)
    [] y.v = 0 -> IF x.v = 0 THEN NaN ELSE Inf(Sgn(x.v))
    [] OTHER ->
         LET n == Abs(x.v) * 2^(FracBits + 2)
             d == Abs(y.v)
             sticky == IF n % d = 0 THEN 0 ELSE 1
         IN  Round(Sgn(x.v) * Sgn(y.v) * (2 * (n \div d) + sticky), FracBits + 3)
f_lt(x, y) ==
  CASE x.k = "nan" \/ y.k = "nan" -> FALSE
    [] x.k = "inf" -> x.v = -1 /\ ~(y.k = "inf" /\ y.v = -1)
    [] y.k = "inf" -> y.v = 1
    [] OTHER -> x.v < y.v
f_gt(x, y) == f_lt(y, x)
\* f64::trunc, f64::fract (self - self.trunc()) and f64::signum (1.0 for
\* +0.0 and every positive number).
trunc(x) ==
  IF x.k = "fin" THEN Fin(Sgn(x.v) * ((Abs(x.v) \div FracUnit) * FracUnit)) ELSE x
fract(x) == f_sub(x, trunc(x))
signum(x) ==
  CASE x.k = "nan" -> NaN
    [] x.k = "inf" -> Fin(x.v * FracUnit)
    [] OTHER -> Fin(Sgn(x.v) * FracUnit)
\* `x as i64`: toward zero, saturating, 0 for NaN.
as_i64(x) ==
  CASE x.k = "nan" -> 0
    [] x.k = "inf" -> IF x.v = 1 THEN I64_MAX ELSE I64_MIN
    [] OTHER ->
         LET i == Sgn(x.v) * (Abs(x.v) \div FracUnit)
         IN  IF i > I64_MAX THEN I64_MAX ELSE IF i < I64_MIN THEN I64_MIN ELSE i
\* `i as f64`.
as_f64(i) == Round(i * FracUnit, FracBits)
\* f64::EPSILON: the step of the floats just above 1.0.
EPSILON == 2^(FracBits - MantBits + 1)

\* TimeSpec::MAX and TimeSpec::MIN.
MAX == TimeSpec(I64_MAX, FracUnit - EPSILON)
MIN == TimeSpec(I64_MIN, 0)

\* TimeSpec::try_from_parts.
try_from_parts(full_secs, frac_secs) ==
  IF is_nan(frac_secs) \/ is_infinite(frac_secs) THEN None
  ELSE
    LET full1 == checked_add_i64(full_secs, as_i64(trunc(frac_secs)))
        frac1 == fract(frac_secs)
    IN  IF full1 = None THEN None
        ELSE IF f_lt(frac1, Fin(0))
        THEN LET frac2 == f_add(frac1, Fin(FracUnit))
                 full2 == checked_sub_i64(Unwrap(full1), 1)
             IN  IF full2 = None THEN None
                 ELSE Some(TimeSpec(Unwrap(full2), frac2.v))
        ELSE Some(TimeSpec(Unwrap(full1), frac1.v))

\* What a call that may panic gives: the value, or the panic.
Panicked == [panic |-> TRUE]
Returned(t) == [panic |-> FALSE, val |-> t]
\* Option::expect.
expect(o) == IF o = None THEN Panicked ELSE Returned(Unwrap(o))

\* TimeSpec::from_parts, from_secs, from_secs_f64 (from_secs_f32 widens its
\* argument and does the same).
from_parts(full_secs, frac_secs) == expect(try_from_parts(full_secs, frac_secs))
from_secs(secs) == from_parts(secs, Fin(0))
from_secs_f64(secs) == from_parts(0, secs)

\* impl Neg for TimeSpec.
neg(t, mode) ==
  LET n == neg_i64(t.full_secs, mode)
  IN  IF n = None THEN Panicked ELSE from_parts(Unwrap(n), f_neg(Fin(t.frac_secs)))

is_negative(t) == t.full_secs < 0
\* TimeSpec::sign.
sign(t) ==
  IF t.full_secs = 0 THEN as_i64(signum(Fin(t.frac_secs)))
  ELSE Sgn(t.full_secs)

checked_add(self, rhs) ==
  LET full_secs == checked_add_i64(self.full_secs, rhs.full_secs)
      frac_secs == f_add(Fin(self.frac_secs), Fin(rhs.frac_secs))
  IN  IF full_secs = None THEN None
      ELSE try_from_parts(Unwrap(full_secs), frac_secs)
checked_sub(self, rhs) ==
  LET full_secs == checked_sub_i64(self.full_secs, rhs.full_secs)
      frac_secs == f_sub(Fin(self.frac_secs), Fin(rhs.frac_secs))
  IN  IF full_secs = None THEN None
      ELSE try_from_parts(Unwrap(full_secs), frac_secs)
checked_mul(self, rhs) ==
  LET full_secs == f_mul(as_f64(self.full_secs), rhs)
      frac_secs == f_add(f_mul(Fin(self.frac_secs), rhs), fract(full_secs))
  IN  IF f_gt(full_secs, as_f64(I64_MAX)) \/ f_lt(full_secs, as_f64(I64_MIN))
      THEN None
      ELSE try_from_parts(as_i64(trunc(full_secs)), frac_secs)
checked_div(self, rhs) ==
  IF rhs = Fin(0) THEN None
  ELSE
    LET full_secs == f_div(as_f64(self.full_secs), rhs)
        frac_secs == f_add(f_div(Fin(self.frac_secs), rhs), fract(full_secs))
    IN  IF f_gt(full_secs, as_f64(I64_MAX)) \/ f_lt(full_secs, as_f64(I64_MIN))
        THEN None
        ELSE try_from_parts(as_i64(trunc(full_secs)), frac_secs)

\* The floats given as arguments: every float of up to two seconds either
\* way, one beyond the range of the integer field either way, the infinities
\* and NaN.
Floats ==
  { Round(n, FracBits) : n \in (-2 * FracUnit)..(2 * FracUnit) }
    \cup { Fin(2^(IntBits + 1) * FracUnit), Fin(-(2^(IntBits + 1) * FracUnit)),
           Inf(1), Inf(-1), NaN }
\* The whole seconds given as arguments.
Wholes == { I64_MIN, -1, 0, 1, I64_MAX }
\* The floats given as factors and divisors, and to from_parts.
Factors ==
  { Fin(0), Fin(FracUnit \div 2), Fin(FracUnit), Fin(2 * FracUnit), Fin(-1),
    Fin(-FracUnit), Fin(2^(IntBits + 1) * FracUnit), Inf(1), NaN }
\* The TimeSpecs given as right-hand sides.
Rhs ==
  { ZERO, MAX, MIN, TimeSpec(0, 1), TimeSpec(0, FracUnit \div 2),
    TimeSpec(1, 0), TimeSpec(-1, FracUnit \div 2), TimeSpec(-1, 0) }

\* An operation that leaves Some(t) or a returned t puts it in hand.
Kept(o) == IF o = None THEN tval ELSE Unwrap(o)
KeptP(r) == IF r.panic THEN tval ELSE r.val

TryFromParts ==
  \E w \in Wholes, f \in Floats :
    LET r == try_from_parts(w, f)
    IN  /\ tval' = Kept(r)
        /\ tLast' = [op |-> "try_from_parts", full |-> w, frac |-> f, result |-> r]
        /\ UNCHANGED nonTime

FromParts ==
  \E w \in Wholes, f \in Factors :
    LET r == from_parts(w, f)
    IN  /\ tval' = KeptP(r)
        /\ tLast' = [op |-> "from_parts", full |-> w, frac |-> f,
                     result |-> IF r.panic THEN None ELSE Some(r.val)]
        /\ UNCHANGED nonTime

FromSecs ==
  \E w \in Wholes :
    LET r == from_secs(w)
    IN  /\ tval' = KeptP(r)
        /\ tLast' = [op |-> "from_secs", full |-> w, frac |-> Fin(0),
                     result |-> IF r.panic THEN None ELSE Some(r.val)]
        /\ UNCHANGED nonTime

FromSecsF64 ==
  \E f \in Floats :
    LET r == from_secs_f64(f)
    IN  /\ tval' = KeptP(r)
        /\ tLast' = [op |-> "from_secs_f64", full |-> 0, frac |-> f,
                     result |-> IF r.panic THEN None ELSE Some(r.val)]
        /\ UNCHANGED nonTime

TimeNeg ==
  \E mode \in { "checked", "wrapping" } :
    LET r == neg(tval, mode)
    IN  /\ tval' = KeptP(r)
        /\ tLast' = [op |-> "neg", self |-> tval,
                     result |-> IF r.panic THEN None ELSE Some(r.val)]
        /\ UNCHANGED nonTime

CheckedAdd ==
  \E rhs \in Rhs :
    LET r == checked_add(tval, rhs)
    IN  /\ tval' = Kept(r)
        /\ tLast' = [op |-> "checked_add", self |-> tval, rhs |-> rhs, result |-> r]
        /\ UNCHANGED nonTime

CheckedSub ==
  \E rhs \in Rhs :
    LET r == checked_sub(tval, rhs)
    IN  /\ tval' = Kept(r)
        /\ tLast' = [op |-> "checked_sub", self |-> tval, rhs |-> rhs, result |-> r]
        /\ UNCHANGED nonTime

CheckedMul ==
  \E rhs \in Factors :
    LET r == checked_mul(tval, rhs)
    IN  /\ tval' = Kept(r)
        /\ tLast' = [op |-> "checked_mul", self |-> tval, rhs |-> rhs, result |-> r]
        /\ UNCHANGED nonTime

CheckedDiv ==
  \E rhs \in Factors :
    LET r == checked_div(tval, rhs)
    IN  /\ tval' = Kept(r)
        /\ tLast' = [op |-> "checked_div", self |-> tval, rhs |-> rhs, result |-> r]
        /\ UNCHANGED nonTime

\* TimeSpec::sign, is_zero and is_negative of the time in hand.
TimeSign ==
  /\ tLast' = [op |-> "sign", self |-> tval, sign |-> sign(tval),
               is_zero |-> is_zero(tval), is_negative |-> is_negative(tval)]
  /\ UNCHANGED <<tval, nonTime>>

TimeInit ==
  /\ tval = ZERO
  /\ tLast = [op |-> "init"]

TimeNext ==
  \/ TryFromParts
  \/ FromParts
  \/ FromSecs
  \/ FromSecsF64
  \/ TimeNeg
  \/ CheckedAdd
  \/ CheckedSub
  \/ CheckedMul
  \/ CheckedDiv
  \/ TimeSign

(* ===================== tx_stream.rs: TxStream ========================== *)
\* TxStreamBuilder::open with TxStream::new: the native calls made, in order,
\* for the codes the four native calls return.
tx_open_calls(mk, get, q1, q2) ==
  IF ~try_uhd(mk).ok
    THEN << Call("uhd_tx_streamer_make", mk), Call("uhd_tx_streamer_free", "UHD_ERROR_NONE") >>
  ELSE IF ~try_uhd(get).ok
    THEN << Call("uhd_tx_streamer_make", mk), Call("uhd_usrp_get_tx_stream", get) >>
  ELSE IF ~try_uhd(q1).ok
    THEN << Call("uhd_tx_streamer_make", mk), Call("uhd_usrp_get_tx_stream", get),
            Call("uhd_tx_streamer_max_num_samps", q1),
            Call("uhd_tx_streamer_free", "UHD_ERROR_NONE") >>
  ELSE IF ~try_uhd(q2).ok
    THEN << Call("uhd_tx_streamer_make", mk), Call("uhd_usrp_get_tx_stream", get),
            Call("uhd_tx_streamer_max_num_samps", q1),
            Call("uhd_tx_streamer_num_channels", q2),
            Call("uhd_tx_streamer_free", "UHD_ERROR_NONE") >>
  ELSE << Call("uhd_tx_streamer_make", mk), Call("uhd_usrp_get_tx_stream", get),
          Call("uhd_tx_streamer_max_num_samps", q1),
          Call("uhd_tx_streamer_num_channels", q2) >>

\* The result of TxStreamBuilder::open: the first failing code, translated.
tx_open_result(mk, get, q1, q2) ==
  IF ~try_uhd(mk).ok THEN try_uhd(mk)
  ELSE IF ~try_uhd(get).ok THEN try_uhd(get)
  ELSE IF ~try_uhd(q1).ok THEN try_uhd(q1)
  ELSE IF ~try_uhd(q2).ok THEN try_uhd(q2)
  ELSE Ok("TxStream")

TxBuilderOpen ==
  /\ txs.status /= "open"
  /\ \E o \in OpenOutcomes :
       LET res == tx_open_result(o.codes[1], o.codes[2], o.codes[3], o.codes[4])
       IN
       /\ txs' = IF res.ok
                   THEN [status |-> "open", channels |-> o.ch, samples_per_buffer |-> o.spb]
                   ELSE NoStream
       /\ twLast' = [op |-> "open", result |-> res, made |-> try_uhd(o.codes[1]).ok,
                     calls |-> tx_open_calls(o.codes[1], o.codes[2], o.codes[3], o.codes[4])]
  /\ UNCHANGED nonTxs

\* Dropping the TxStream drops its OwnedHandle, which calls the release
\* function.
tx_drop_stream_calls(code) == << Call("uhd_tx_streamer_free", code) >>

TxDropStream ==
  /\ txs.status = "open"
  /\ \E code \in NativeCodes :
       twLast' = [op |-> "drop_stream", result |-> Ok(Unit),
                  calls |-> tx_drop_stream_calls(code)]
  /\ txs' = [txs EXCEPT !.status = "dropped"]
  /\ UNCHANGED nonTxs

\* TxMetadata::to_handle: the native creation call, whose code is dropped,
\* and the OwnedHandle made of whatever the call left in the pointer.
to_handle_calls(md, mk) == << [fn |-> "uhd_tx_metadata_make", md |-> md, code |-> mk] >>

\* TxStreamWriter::send_raw: the metadata handle is made (of the writer's
\* metadata, or of TxMetadata::new()), the native send is called with it, and
\* the handle is dropped when the call returns.
send_raw_calls(md, mk, snd) ==
  to_handle_calls(md, mk)
    \o << [fn |-> "uhd_tx_streamer_send", code |-> snd, md_created |-> try_uhd(mk).ok] >>
    \o << [fn |-> "uhd_tx_metadata_free", created |-> try_uhd(mk).ok] >>
send_raw_result(snd, sent) == IF try_uhd(snd).ok THEN Ok(sent) ELSE try_uhd(snd)

\* TxMetadata::new().
new_tx_metadata == [has_time_spec |-> FALSE, start_of_burst |-> FALSE, end_of_burst |-> FALSE]

\* TxStreamWriter::send on a writer of the open stream.
TxWriterSend ==
  /\ txs.status = "open"
  /\ \E mdo \in { None } \cup { Some(m) : m \in TxMetadatas },
        mk \in NativeCodes, snd \in NativeCodes, sent \in 0 .. MaxSpb :
       LET md == IF mdo = None THEN new_tx_metadata ELSE Unwrap(mdo)
       IN  twLast' = [op |-> "send", metadata |-> mdo, make_code |-> mk,
                      result |-> send_raw_result(snd, IF try_uhd(snd).ok THEN sent ELSE 0),
                      calls |-> send_raw_calls(md, mk, snd)]
  /\ UNCHANGED txs
  /\ UNCHANGED nonTxs

TxsInit ==
  /\ txs = NoStream
  /\ twLast = [op |-> "init", result |-> Ok(Unit), calls |-> <<>>]

TxsNext ==
  \/ TxBuilderOpen
  \/ TxDropStream
  \/ TxWriterSend

\* Opening and dropping the two kinds of stream.
OpenNext ==
  \/ BuilderOpen
  \/ DropStream
  \/ TxBuilderOpen
  \/ TxDropStream

(* ============= buffer/arraybuffer.rs: the end of a buffer ============== *)
\* The sample types of the model, by size and alignment in bytes: i16, f64
\* and Complex<f64>.
SampleLayouts ==
  { [size |-> 2, align |-> 2], [size |-> 8, align |-> 8], [size |-> 16, align |-> 8] }
\* The layout of `&mut [S]`: a pointer and a length.
FatRefSize == 16
FatRefAlign == 8

\* `Box::from_raw(i.cast::<&mut [S]>())`, dropped at once: the region at i is
\* deallocated as a box of one `&mut [S]`.
drop_region(h, addr, samples, lay) ==
  Dealloc(addr, Allocated(h, addr),
          samples * lay.size = FatRefSize /\ lay.align = FatRefAlign)

\* impl Drop for ArrayBuffer, and the drop of the field inner after it.
drop_releases(h, b, lay) ==
  [i \in 1 .. Len(inner_of(h, b)) |-> drop_region(h, inner_of(h, b)[i], b.samples, lay)]
    \o (IF Allocated(h, b.inner) THEN << Dealloc(b.inner, TRUE, TRUE) >> ELSE << >>)

\* A deallocation of no allocation, or with another layout than the
\* allocation's, is undefined behaviour.
IsUb(rel) == \E i \in DOMAIN rel : ~rel[i].allocated \/ ~rel[i].layout_ok

\* One of the buffers goes out of scope.
AbDrop ==
  \E on \in { 1, 2 }, lay \in SampleLayouts :
    LET bo == IF on = 1 THEN abuf ELSE abuf2 IN
    /\ bo /= None
    /\ LET rel == drop_releases(heap, Unwrap(bo), lay) IN
       \E outcome \in (IF IsUb(rel) THEN { "returns", "crashes" } ELSE { "returns" }) :
         /\ released' = released \o rel
         /\ abLast' = [op |-> "drop", panic |-> FALSE, on |-> on, layout |-> lay,
                       shape |-> [channels |-> Unwrap(bo).channels,
                                  samples |-> Unwrap(bo).samples],
                       ub |-> IsUb(rel), outcome |-> outcome]
    /\ abuf' = IF on = 1 THEN None ELSE abuf
    /\ abuf2' = IF on = 2 THEN None ELSE abuf2
    /\ UNCHANGED <<heap, sbuf, abMade, vecs>>
    /\ UNCHANGED nonBufLife

\* One of the vectors into_vec returned goes out of scope: a vector with a
\* capacity deallocates its region as the array it is.
VecDrop ==
  \E a \in vecs :
    /\ vecs' = vecs \ { a }
    /\ released' = IF Allocated(heap, a) THEN Append(released, Dealloc(a, TRUE, TRUE))
                   ELSE released
    /\ abLast' = [op |-> "vec_drop", panic |-> FALSE, addr |-> a]
    /\ UNCHANGED <<heap, abuf, abuf2, sbuf, abMade>>
    /\ UNCHANGED nonBufLife

LifeInit ==
  /\ released = << >>
  /\ vecs = {}

\* A clone is made while nothing was released and the heap holds no more
\* than one buffer can take, which keeps the heap finite.
LifeClone == released = << >> /\ Len(heap) <= MaxBufChannels + 1 /\ AbClone

LifeNext ==
  \/ AbWithFill
  \/ AbFromVecChannels
  \/ LifeClone
  \/ AbIntoVec
  \/ AbDrop
  \/ VecDrop

\* ---------------------------------------------------------------------
\* rx_stream.rs: RxStreamReader::recv_until
\* ---------------------------------------------------------------------

\* The longest run of recv calls one recv_until is followed through.
MaxRounds == 3

NoUntil == [pc |-> "idle", buff |-> [channels |-> 0, samples |-> 0],
            results |-> << >>, preds |-> << >>, natives |-> 0, result |-> None]

\* The loop body carried on after a failed recv as well.
until_after_retry(res, p) ==
  IF res.ok /\ ~p THEN [pc |-> "done", result |-> Ok(Unit)]
              ELSE [pc |-> "loop", result |-> Ok(Unit)]

\* One turn of the loop: `self.recv(buff)?` returns the error of a failed
\* recv; otherwise the predicate is asked and FALSE breaks to Ok(()).
until_after(res, p) ==
  IF ~res.ok THEN [pc |-> "done", result |-> res]
  ELSE IF ~p THEN [pc |-> "done", result |-> Ok(Unit)]
  ELSE [pc |-> "loop", result |-> Ok(Unit)]

\* recv_until is called with a buffer and a predicate.
RecvUntilCall ==
  /\ IsSome(reader)
  /\ until.pc \in {"idle", "done"}
  /\ \E buff \in BufferShapes :
       until' = [pc |-> "loop", buff |-> buff, results |-> << >>,
                 preds |-> << >>, natives |-> 0, result |-> None]
  /\ UNCHANGED rxVars
  /\ UNCHANGED nonRxUntil

\* One turn of the loop: a recv into the buffer, then the predicate, whose
\* answer p is the caller's.
RecvUntilStep ==
  /\ IsSome(reader)
  /\ until.pc = "loop"
  /\ Len(until.results) < MaxRounds
  /\ RecvWith(until.buff)
  /\ \E p \in BOOLEAN :
       LET res == rxLast'.result
           nx == until_after(res, p)
       IN until' = [until EXCEPT
                      !.pc = nx.pc,
                      !.results = Append(@, res),
                      !.preds = IF res.ok THEN Append(@, p) ELSE @,
                      !.natives = @ + Len(rxLast'.calls),
                      !.result = IF nx.pc = "done" THEN Some(nx.result) ELSE None]
  /\ UNCHANGED <<stream, cmd, cmdArgs, reader>>
  /\ UNCHANGED nonRxUntil

UntilInit ==
  until = NoUntil

UntilNext ==
  \/ BuilderOpen
  \/ StartStream
  \/ Reader
  \/ RecvUntilCall
  \/ RecvUntilStep

\* ---------------------------------------------------------------------
\* error.rs: last_error_message
\* ---------------------------------------------------------------------

\* The size of the message buffer (128 in the source).
MessageLen == 4

\* The bytes the native call leaves in the buffer: NUL, 'A', and a byte that
\* is no UTF-8 text.
MessageBytes == { 0, 65, 255 }

\* The buffers the native call can leave behind.
Messages == [1 .. MessageLen -> MessageBytes]

\* CString::new: refuses bytes that hold a NUL anywhere.
CString_new(bytes) ==
  IF \E i \in DOMAIN bytes : bytes[i] = 0 THEN Err("NulError") ELSE Ok(bytes)

\* last_error_message, given the code uhd_get_last_error returned and the
\* buffer as it left it.
last_error_message(code, message) ==
  IF ~try_uhd(code).ok THEN try_uhd(code)
  ELSE IF ~CString_new(message).ok THEN Err("Unknown")
  ELSE Ok(to_string_lossy(CString_new(message).val))

NoMsg == [op |-> "none"]

LastErrorMessage ==
  /\ \E code \in NativeCodes, message \in Messages :
       lastMsg' = [op |-> "last_error_message", code |-> code,
                   message |-> message,
                   result |-> last_error_message(code, message)]
  /\ UNCHANGED nonMsg

MsgInit ==
  lastMsg = NoMsg

MsgNext ==
  LastErrorMessage

vars == <<rxVars, sessVars, txVars, hVars, errVars, strVars, bufVars, timeVars, txsVars, lifeVars, untilVars, msgVars>>

\* The receive stream of rx_stream.rs.
Init == RxInit /\ SessInit /\ TxInit /\ HInit /\ ErrInit /\ StrInit /\ BufInit /\ TimeInit /\ TxsInit /\ LifeInit /\ UntilInit /\ MsgInit
Next == RxNext
Spec == Init /\ [][Next]_vars

\* The start command builder of rx_stream.rs.
InitCmd == CmdInit /\ SessInit /\ TxInit /\ HInit /\ ErrInit /\ StrInit /\ BufInit /\ TimeInit /\ TxsInit /\ LifeInit /\ UntilInit /\ MsgInit
SpecCmd == InitCmd /\ [][CmdNext]_vars

\* The reader session of the rx.rs revision.
SpecSession == Init /\ [][SessNext]_vars

\* TxStream::send of the tx.rs revision.
SpecTx == Init /\ [][TxNext]_vars

\* The owned native handle of ffi.rs.
SpecHandle == Init /\ [][HNext]_vars

\* The translation of native codes of error.rs.
SpecErr == Init /\ [][ErrNext]_vars

\* The string buffer of ffi.rs.
SpecStr == Init /\ [][StrNext]_vars

\* The sample buffer of buffer/arraybuffer.rs.
SpecBuf == Init /\ [][BufNext]_vars

\* Clone and equality of buffer/arraybuffer.rs.
SpecPair == Init /\ [][PairNext]_vars

\* The TimeSpec of time.rs.
SpecTime == Init /\ [][TimeNext]_vars

\* Construction, clone, into_vec and drop of ArrayBuffers.
SpecLife == Init /\ [][LifeNext]_vars

\* The transmit stream of tx_stream.rs.
SpecTxs == Init /\ [][TxsNext]_vars

\* Opening and dropping receive and transmit streams.
SpecOpen == Init /\ [][OpenNext]_vars

\* RxStreamReader::recv_until on an open stream.
SpecUntil == Init /\ [][UntilNext]_vars

\* last_error_message of error.rs.
SpecMsg == Init /\ [][MsgNext]_vars

(* ============================== claims ================================= *)
NativeRecv(l) == l.op = "recv" /\ l.calls /= <<>>
IssuedStop(call) ==
  call.fn = "uhd_rx_streamer_issue_stream_cmd" /\ call.cmd.stream_mode = STOP_CONTINUOUS

\* C1: recv with a buffer whose channel count differs from the stream's cached
\* channel count returns Err(Index) and makes no native receive call, whatever
\* the buffer's sample count and the reader's configuration.
C1_ChannelMismatchIsIndexError ==
  (rxLast.op = "recv" /\ rxLast.buff.channels /= stream.channels) =>
    (rxLast.result = Err("Index") /\ rxLast.calls = <<>>)

\* C1 witness: a configured reader refused a buffer that has the stream's
\* sample count and another channel count.
C1_Witness ==
  /\ rxLast.op = "recv"
  /\ rxLast.buff.channels /= stream.channels
  /\ rxLast.buff.samples = stream.samples_per_buffer
  /\ Unwrap(reader).metadata /\ Unwrap(reader).one_packet /\ IsSome(Unwrap(reader).timeout)
  /\ rxLast.result = Err("Index")

\* C3: the release of the handle of a stream that was started and not stopped
\* since is preceded, in the drop, by a stop command.
C3_DropStopsBeforeRelease ==
  (rxLast.op = "drop_stream" /\ ~rxLast.stoppedBefore) =>
    \E i \in DOMAIN rxLast.calls : \E j \in DOMAIN rxLast.calls :
      /\ i < j
      /\ IssuedStop(rxLast.calls[i])
      /\ rxLast.calls[j].fn = "uhd_rx_streamer_free"

\* C4: a start command sent without with_time is issued with stream_now set;
\* one given a non-zero time by with_time is issued with stream_now cleared and
\* that time's two fields.
C4_StreamNowFollowsTime ==
  (rxLast.op = "send") =>
    LET c == rxLast.calls[1].cmd
        ta == rxLast.timeArg
    IN
    /\ (ta = None) => c.stream_now
    /\ (IsSome(ta) /\ ~is_zero(Unwrap(ta))) =>
         /\ ~c.stream_now
         /\ c.time_spec_full_secs = Unwrap(ta).full_secs
         /\ c.time_spec_frac_secs = Unwrap(ta).frac_secs

\* C5: the stream mode of the issued command follows from the limit alone: no
\* with_limit gives start-continuous, with_limit(N, true) num-samps-and-done,
\* with_limit(N, false) num-samps-and-more, both with num_samps = N, where the
\* last with_limit call decides.
C5_ModeFollowsLastLimit ==
  (rxLast.op = "send") =>
    LET c == rxLast.calls[1].cmd
        la == rxLast.limitArg
    IN
    /\ (la = None) => c.stream_mode = START_CONTINUOUS
    /\ (IsSome(la) /\ Unwrap(la)[2]) =>
         (c.stream_mode = NUM_SAMPS_AND_DONE /\ c.num_samps = Unwrap(la)[1])
    /\ (IsSome(la) /\ ~Unwrap(la)[2]) =>
         (c.stream_mode = NUM_SAMPS_AND_MORE /\ c.num_samps = Unwrap(la)[1])

\* C5 witness: a command sent after two with_limit calls, and with a time too.
C5_Witness ==
  /\ rxLast.op = "send"
  /\ rxLast.limitCalls = 2
  /\ rxLast.limitArg = Some(<<2, TRUE>>)
  /\ IsSome(rxLast.timeArg)
  /\ rxLast.calls[1].cmd.stream_mode = NUM_SAMPS_AND_DONE

\* C6: after an accepted start-N-and-done, and with no stop issued since, the
\* counts recv returned never sum to more than N; once they sum to N the
\* engine is Idle, and a later recv returns no sample: 0 with a timeout
\* condition whenever the native call reports success.
C6_BoundedBurst ==
  /\ IsSome(rxGhost.burst) =>
       /\ rxGhost.delivered <= Unwrap(rxGhost.burst)
       /\ (rxGhost.delivered = Unwrap(rxGhost.burst)) => engine.mode = "idle"
  /\ (rxLast.op = "recv" /\ rxLast.exhaustedBefore) =>
       /\ rxLast.result.ok => rxLast.result = Ok(0)
       /\ (rxLast.calls /= <<>> /\ rxLast.calls[1].code = "UHD_ERROR_NONE") =>
            (rxLast.result = Ok(0) /\ rxLast.calls[1].condition = "timeout")

\* C6 witness: N exceeds the stream's maximum per call, the counts reached N
\* over several calls, and a later recv reported 0.
C6_Witness ==
  /\ IsSome(rxGhost.burst)
  /\ Unwrap(rxGhost.burst) > stream.samples_per_buffer
  /\ stream.samples_per_buffer > 1
  /\ rxGhost.delivered = Unwrap(rxGhost.burst)
  /\ rxLast.op = "recv"
  /\ rxLast.exhaustedBefore
  /\ rxLast.result = Ok(0)

\* C7: stop_now on an Idle stream leaves it Idle (and a stop_now that succeeds
\* always does), and a start command accepted in time puts the stream into
\* Streaming whatever starts and stops came before it.
C7_RedundantStopSafe ==
  /\ (rxLast.op = "stop_now" /\ (rxLast.idleBefore \/ rxLast.result.ok)) =>
       engine.mode = "idle"
  /\ (rxLast.op = "send" /\ rxLast.result.ok /\ ~rxLast.late
        /\ rxLast.limitArg \notin {Some(<<0, TRUE>>)}) =>
       engine.mode /= "idle"
  /\ (stream.status = "open" /\ reader = None /\ cmd = None) => ENABLED StartStream

\* C7 witness: a stream that was stopped, had a redundant stop, and streams
\* again after a new start.
C7_Witness ==
  /\ rxLast.op = "send"
  /\ rxLast.stopsEarlier = "redundant"
  /\ engine.mode = "continuous"

\* C8: recv returns Ok(n) whenever the native receive call reports success,
\* whatever condition the metadata carries, and Err only after a refused shape
\* or a non-success native code.
C8_MetadataConditionIsNotAnError ==
  (rxLast.op = "recv") =>
    /\ (rxLast.calls /= <<>> /\ rxLast.calls[1].code = "UHD_ERROR_NONE") =>
         rxLast.result = Ok(rxLast.calls[1].received)
    /\ (~rxLast.result.ok) =>
         \/ (rxLast.calls = <<>> /\ recv_refuses(rxLast.buff, stream))
         \/ (rxLast.calls /= <<>> /\ rxLast.calls[1].code /= "UHD_ERROR_NONE")

\* C8 witness: a receive of 0 samples with a timeout condition in the attached
\* metadata came back as Ok(0).
C8_Witness ==
  /\ rxLast.op = "recv"
  /\ rxLast.calls /= <<>>
  /\ rxLast.calls[1].metadata
  /\ rxLast.calls[1].received = 0
  /\ rxLast.calls[1].condition = "timeout"
  /\ rxLast.result = Ok(0)

\* C2: a reader session of the rx.rs revision that open started ends with
\* exactly one stop-continuous command, issued by the reader's drop after the
\* last recv whatever the recv calls returned; a session whose start command
\* failed has no reader and issues no stop.
C2_SessionEndsWithStop ==
  /\ (sess.pc = "ended") =>
       /\ Head(sess.log) = "start_ok"
       /\ sess.log[Len(sess.log)] = "stop"
       /\ \A i \in 1 .. (Len(sess.log) - 1) : sess.log[i] /= "stop"
  /\ (sess.pc \in {"reader", "unwinding"}) =>
       /\ Head(sess.log) = "start_ok"
       /\ \A i \in DOMAIN sess.log : sess.log[i] /= "stop"
  /\ (sess.pc = "failed") => (sess.log = <<"start_err">> /\ sess.reader = None)
  /\ (sessLast.op = "drop") =>
       (Len(sessLast.calls) = 1 /\ IssuedStop(sessLast.calls[1]))

\* C2 witness: a session with a successful and a failed recv has ended, its
\* last event being the stop.
C2_Witness ==
  /\ sess.pc = "ended"
  /\ \E i \in DOMAIN sess.log : sess.log[i] = "recv_ok"
  /\ \E i \in DOMAIN sess.log : sess.log[i] = "recv_err"
  /\ sess.log[Len(sess.log)] = "stop"
  /\ sessLast.calls[1].code /= "UHD_ERROR_NONE"

\* C9: TxStream::send with two or more slices that are not all of one length
\* returns Err(Index) and makes no native call: no metadata handle, no send.
C9_UnequalSlicesRefused ==
  (txLast.op = "send" /\ Len(txLast.data) >= 2
     /\ \E i \in DOMAIN txLast.data : \E j \in DOMAIN txLast.data :
          txLast.data[i] /= txLast.data[j]) =>
    (txLast.result = Err("Index") /\ txLast.calls = <<>>)

\* C9 witness: three slices, the first two alike and the third of another
\* length, were refused.
C9_Witness ==
  /\ txLast.op = "send"
  /\ Len(txLast.data) = 3
  /\ txLast.data[1] = txLast.data[2]
  /\ txLast.data[3] /= txLast.data[1]
  /\ txLast.result = Err("Index")

\* C10: OwnedHandle::new returns the translated error when the allocator
\* reports a non-success code, and the release function is then never called;
\* a constructed handle (new or from_ptr) has its release function called
\* exactly once, by its drop, and the drop reports nothing whatever the release
\* function returns.
C10_ReleasedExactlyOnce ==
  /\ \A id \in DOMAIN handles :
       /\ handles[id].state \in {"absent", "failed", "live"} => handles[id].frees = 0
       /\ handles[id].state = "dropped" => handles[id].frees = 1
  /\ (hLast.op = "new") =>
       IF hLast.code = "UHD_ERROR_NONE"
         THEN hLast.result.ok /\ handles[hLast.id].state = "live"
         ELSE /\ hLast.result = Err(Unwrap(from_sys(hLast.code)))
              /\ handles[hLast.id].state = "failed"
  /\ (hLast.op = "drop") => hLast.result = Ok(Unit)

\* C10 witness: an allocation failed, and a handle from new and one from
\* from_ptr were dropped, the last release reporting a non-success code.
C10_Witness ==
  /\ hLast.op = "drop"
  /\ hLast.code /= "UHD_ERROR_NONE"
  /\ \E id \in DOMAIN handles : handles[id].state = "failed"
  /\ \E id \in DOMAIN handles : handles[id].state = "dropped" /\ handles[id].via = "new"
  /\ \E id \in DOMAIN handles : handles[id].state = "dropped" /\ handles[id].via = "from_ptr"

\* C11: from_sys gives no error for the success code, Index for the index code
\* and for no other, the kind declared with the code for every other named
\* code (so two different named codes never give one kind), and Unknown for a
\* code without a name; try_uhd! is Ok(()) exactly for the success code.
C11_FromSysFollowsNames ==
  (errs.op = "from_sys") =>
    /\ (errs.code = "UHD_ERROR_NONE") <=> (errs.kind = None)
    /\ (errs.code = "UHD_ERROR_INDEX") <=> (errs.kind = Some("Index"))
    /\ (errs.code \in NamedCodes \ {"UHD_ERROR_NONE"}) =>
         (IsSome(errs.kind) /\ discriminant(Unwrap(errs.kind)) = errs.code)
    /\ (errs.code \notin NamedCodes) => errs.kind = Some("Unknown")
    /\ (IsSome(errs.prev) /\ errs.code \in NamedCodes
          /\ Unwrap(errs.prev).code \in NamedCodes
          /\ Unwrap(errs.prev).code /= errs.code) =>
         Unwrap(errs.prev).kind /= errs.kind
    /\ (errs.tried = Ok(Unit)) <=> (errs.code = "UHD_ERROR_NONE")
    /\ (errs.code /= "UHD_ERROR_NONE") => errs.tried = Err(Unwrap(errs.kind))

\* C11 witness: the index code was translated to Index right after a code
\* without a name was translated to Unknown.
C11_Witness ==
  /\ errs.op = "from_sys"
  /\ errs.code = "UHD_ERROR_INDEX"
  /\ errs.tried = Err("Index")
  /\ IsSome(errs.prev)
  /\ Unwrap(errs.prev).code \notin NamedCodes
  /\ Unwrap(errs.prev).kind = Some("Unknown")

\* C12: into_string returns Err(Unknown) for a buffer without a NUL, and for
\* a buffer with one the string of exactly the bytes before the first NUL.
C12_TerminatorDecides ==
  (ffiStr.pc = "done" /\ ffiStr.s /= <<>>) =>
    IF \A i \in DOMAIN ffiStr.s : ffiStr.s[i] /= 0
      THEN ffiStr.result = Some(Err("Unknown"))
      ELSE ffiStr.result = Some(Ok(SubSeq(ffiStr.s, 1, first_nul(ffiStr.s) - 1)))

\* C13: into_string returns Err(Unknown) when the bytes before the first NUL
\* are not UTF-8 text.
C13_InvalidEncodingIsUnknown ==
  (ffiStr.pc = "done" /\ ffiStr.s /= <<>> /\ first_nul(ffiStr.s) /= 0
     /\ ~is_utf8(SubSeq(ffiStr.s, 1, first_nul(ffiStr.s) - 1))) =>
    ffiStr.result = Some(Err("Unknown"))

\* C14: a buffer made by new, with_fill or uninit reports the channels and
\* samples it was asked for, holds that many channel pointers, each to a region
\* of that many samples, and keeps this shape under channel_mut,
\* iter_channels_mut, iter_samples_mut and indexing.
C14_ShapeIsKept ==
  (abMade.by \in {"new", "with_fill", "uninit"} /\ abuf /= None) =>
    /\ Unwrap(abuf).channels = abMade.channels
    /\ Unwrap(abuf).samples = abMade.samples
    /\ Len(inner_of(heap, Unwrap(abuf))) = abMade.channels
    /\ \A i \in 1 .. Len(inner_of(heap, Unwrap(abuf))) :
         /\ Len(heap[inner_of(heap, Unwrap(abuf))[i]].cells) = abMade.samples
         /\ Len(iter_channels(heap, Unwrap(abuf))[i]) = abMade.samples
    /\ (abLast.op = "views") =>
         /\ abLast.channels = abMade.channels
         /\ abLast.samples = abMade.samples
         /\ abLast.inner_len = abMade.channels
         /\ abLast.channel_lens = [i \in 1 .. abMade.channels |-> abMade.samples]

\* C14 witness: the shape of an uninit buffer of two channels of two samples
\* was read back after a write.
C14_Witness ==
  /\ abMade.by = "uninit"
  /\ abMade.channels = 2
  /\ abMade.samples = 2
  /\ abMade.writes = 1
  /\ abLast.op = "views"
  /\ abLast.channel_lens = << 2, 2 >>

\* C15: from_vec_samples(C, seq) with C > 0 dividing the length L of seq,
\* L = 0 included, returns a buffer of C channels of L/C samples whose channel
\* i holds the elements i*(L/C) .. (i+1)*(L/C) - 1 of seq.
C15_FlatSequenceIsSplit ==
  (abLast.op = "from_vec_samples" /\ abMade.channels > 0
     /\ Len(abMade.input) % abMade.channels = 0) =>
    /\ ~abLast.panic
    /\ abuf /= None
    /\ Unwrap(abuf).channels = abMade.channels
    /\ Unwrap(abuf).samples = Len(abMade.input) \div abMade.channels
    /\ \A i \in 0 .. (abMade.channels - 1) :
         channel(heap, Unwrap(abuf), i) =
           Some(SubSeq(abMade.input,
                       i * (Len(abMade.input) \div abMade.channels) + 1,
                       (i + 1) * (Len(abMade.input) \div abMade.channels)))

\* C16: for a buffer b of at least one channel,
\* from_vec_samples(b.channels(), b.to_flat_vec()) returns a buffer equal to b.
C16_RoundTrip ==
  (abLast.op = "round_trip" /\ Unwrap(abuf).channels >= 1) =>
    (~abLast.panic /\ abLast.equal)

\* C17: from_vec_channels panics when an inner vector's length differs from
\* the first one's, from_vec_samples panics when the flat length is not
\* divisible by the channel count, and a buffer either returns holds exactly
\* the input samples, none dropped and none added.
C17_MismatchPanics ==
  /\ (abLast.op = "from_vec_channels") =>
       /\ (\E i \in DOMAIN abMade.input :
             Len(abMade.input[i]) /= Len(abMade.input[1])) => abLast.panic
       /\ (~abLast.panic) =>
            /\ Unwrap(abuf).channels * Unwrap(abuf).samples = Len(flatten(abMade.input))
            /\ to_vec(heap, Unwrap(abuf)) = abMade.input
  /\ (abLast.op = "from_vec_samples") =>
       /\ (abMade.channels = 0) => abLast.panic
       /\ (abMade.channels > 0 /\ Len(abMade.input) % abMade.channels /= 0) => abLast.panic
       /\ (~abLast.panic) =>
            /\ Unwrap(abuf).channels * Unwrap(abuf).samples = Len(abMade.input)
            /\ Len(inner_of(heap, Unwrap(abuf))) = Unwrap(abuf).channels
            /\ to_flat_vec(heap, Unwrap(abuf)) = abMade.input

\* C17 witness: from_vec_channels panicked for two inner vectors of different
\* lengths.
C17_Witness ==
  /\ abLast.op = "from_vec_channels"
  /\ abLast.panic
  /\ Len(abMade.input) = 2
  /\ Len(abMade.input[1]) = 2
  /\ Len(abMade.input[2]) = 1

\* C18: element k (from 0) of iter_samples, of iter_samples_mut and of
\* to_flat_vec is sample k mod samples of channel k div samples; to_vec and
\* into_vec flattened give the same sequence; and for a buffer made by
\* from_iter_samples that sequence is the input.
C18_ChannelMajorOrder ==
  /\ (abLast.op = "views") =>
       /\ Len(abLast.iter_samples) = abLast.inner_len * abLast.samples
       /\ Len(abLast.iter_samples_mut) = abLast.inner_len * abLast.samples
       /\ Len(abLast.to_flat_vec) = abLast.inner_len * abLast.samples
       /\ \A k \in 0 .. (abLast.inner_len * abLast.samples - 1) :
            LET c == k \div abLast.samples
                j == k % abLast.samples
            IN
            /\ abLast.iter_samples[k + 1] = Unwrap(channel(heap, Unwrap(abuf), c))[j + 1]
            /\ abLast.to_flat_vec[k + 1] = Unwrap(channel(heap, Unwrap(abuf), c))[j + 1]
            /\ abLast.iter_samples_mut[k + 1] = << inner_of(heap, Unwrap(abuf))[c + 1], j + 1 >>
       /\ flatten(abLast.to_vec) = abLast.to_flat_vec
       /\ (abMade.by = "from_iter_samples" /\ abMade.writes = 0) =>
            abLast.to_flat_vec = abMade.input
  /\ (abLast.op = "into_vec") => flatten(abLast.result) = abLast.to_flat_vec
  /\ (abLast.op = "iter_samples_mut") => to_flat_vec(heap, Unwrap(abuf)) = abLast.vals

\* C18 witness: the views of a buffer of two channels of two samples made by
\* from_iter_samples from 0, 1, 0, 0.
C18_Witness ==
  /\ abLast.op = "views"
  /\ abMade.by = "from_iter_samples"
  /\ abLast.channels = 2
  /\ abLast.samples = 2
  /\ abLast.to_flat_vec = << 0, 1, 0, 0 >>
  /\ abLast.to_vec = << << 0, 1 >>, << 0, 0 >> >>

\* C19: a clone is equal to the original; two buffers are equal exactly when
\* they have the same channel count, the same samples per channel and equal
\* samples in every channel; and a write to a sample of the second buffer
\* leaves the samples of the first as they were.
C19_CloneIsEqualAndSeparate ==
  /\ (abLast.op = "clone") => abLast.equal
  /\ (abLast.op = "eq") =>
       (abLast.result <=>
          /\ Unwrap(abuf).channels = Unwrap(abuf2).channels
          /\ Unwrap(abuf).samples = Unwrap(abuf2).samples
          /\ \A i \in 0 .. (Unwrap(abuf).channels - 1) :
               channel(heap, Unwrap(abuf), i) = channel(heap, Unwrap(abuf2), i))
  /\ (abLast.op = "index_mut" /\ abLast.on = 2) =>
       to_vec(heap, Unwrap(abuf)) = Unwrap(abLast.first)

\* C20: as_ptr and as_mut_ptr of every SampleBuffer point to an array of
\* channels() pointers whose element i is the address of the first sample of
\* channel(i), so the pointers the native call reads there are those addresses.
C20_PointerPerChannel ==
  (abLast.op = "as_ptr") =>
    /\ abLast.mut_ptr = abLast.ptr
    /\ heap[abLast.ptr].kind = "ptrs"
    /\ Len(heap[abLast.ptr].cells) = abLast.channels
    /\ heap[abLast.ptr].cells = abLast.first
    /\ abLast.native = abLast.first

(* ------------------------------- C21 ----------------------------------- *)
\* C21: every TimeSpec produced by try_from_parts, from_parts, the from_*
\* constructors, negation or the checked arithmetic operations has a
\* fraction that is at least 0 and less than 1, after any sequence of them.
C21_FractionInRange ==
  /\ tval.frac_secs >= 0 /\ tval.frac_secs < FracUnit
  /\ tLast.op \notin { "init", "sign" } /\ tLast.result /= None =>
       /\ Unwrap(tLast.result).frac_secs >= 0
       /\ Unwrap(tLast.result).frac_secs < FracUnit

(* ------------------------------- C22 ----------------------------------- *)
\* The instant a pair (whole, fraction) denotes, in fraction steps.
Instant(w, f) == w * FracUnit + f
\* C22: try_from_parts(w, f) yields (W, F) with W + F = w + f and
\* W = w + floor(f), and fails when that whole is out of range; inputs that
\* denote the same instant yield equal TimeSpecs; from_parts(-1, 0.75) equals
\* from_parts(0, -0.25) and from_parts(1, 1.5) is (2, 0.5).
C22_NormalizationIsCanonical ==
  /\ from_parts(-1, Fin((3 * FracUnit) \div 4)) = from_parts(0, Fin(-(FracUnit \div 4)))
  /\ from_parts(1, Fin(FracUnit + FracUnit \div 2)) = Returned(TimeSpec(2, FracUnit \div 2))
  /\ tLast.op = "try_from_parts" /\ tLast.frac.k = "fin" =>
       LET W == tLast.full + (tLast.frac.v \div FracUnit)
       IN  /\ tLast.result = None <=> (W < I64_MIN \/ W > I64_MAX)
           /\ tLast.result /= None =>
                /\ Unwrap(tLast.result).full_secs = W
                /\ Instant(Unwrap(tLast.result).full_secs, Unwrap(tLast.result).frac_secs)
                     = Instant(tLast.full, tLast.frac.v)
                /\ \A w2 \in Wholes, f2 \in Floats :
                     /\ f2.k = "fin"
                     /\ Instant(w2, f2.v) = Instant(tLast.full, tLast.frac.v)
                     => try_from_parts(w2, f2) = tLast.result

(* ------------------------------- C23 ----------------------------------- *)
\* The exact value of a TimeSpec, in fraction steps.
Exact(t) == Instant(t.full_secs, t.frac_secs)
\* The exact result of the last checked_add, checked_sub or checked_mul,
\* counted in steps of 1 / ExactScale.
ExactScale == IF tLast.op = "checked_mul" THEN FracUnit * FracUnit ELSE FracUnit
ExactResult ==
  CASE tLast.op = "checked_add" -> Exact(tLast.self) + Exact(tLast.rhs)
    [] tLast.op = "checked_sub" -> Exact(tLast.self) - Exact(tLast.rhs)
    [] tLast.op = "checked_mul" -> Exact(tLast.self) * tLast.rhs.v
ExactInRange ==
  /\ ExactResult >= Exact(MIN) * (ExactScale \div FracUnit)
  /\ ExactResult <= Exact(MAX) * (ExactScale \div FracUnit)
\* The exact result is a TimeSpec: a whole and a fraction that is a float.
ExactIsTimeSpec ==
  /\ ExactResult % (ExactScale \div FracUnit) = 0
  /\ LET fr == (ExactResult \div (ExactScale \div FracUnit)) % FracUnit
     IN  Round(fr, FracBits) = Fin(fr)
\* C23: checked_add, checked_sub and checked_mul return None whenever the
\* exact result is outside [MIN, MAX] and otherwise the normalized exact
\* result; no result has a wrapped or clamped whole-seconds field.
C23_CheckedArithmeticFails ==
  tLast.op \in { "checked_add", "checked_sub", "checked_mul" } =>
    IF tLast.op = "checked_mul" /\ tLast.rhs.k /= "fin" THEN tLast.result = None
    ELSE /\ tLast.result = None <=> ~ExactInRange
         /\ tLast.result /= None /\ ExactIsTimeSpec =>
              Exact(Unwrap(tLast.result)) * (ExactScale \div FracUnit) = ExactResult

(* ------------------------------- C24 ----------------------------------- *)
\* C24: sign is 0 for the time that is exactly zero, +1 for every positive
\* time and -1 for every negative time: sign(t) = 0 exactly when is_zero(t)
\* and sign(t) = -1 exactly when is_negative(t).
C24_SignMatchesValue ==
  tLast.op = "sign" =>
    /\ tLast.sign \in { -1, 0, 1 }
    /\ tLast.sign = 0 <=> tLast.is_zero
    /\ tLast.sign = -1 <=> tLast.is_negative
    /\ Exact(tLast.self) > 0 => tLast.sign = 1

(* ------------------------------- C25 ----------------------------------- *)
\* The calls of a sequence that release a streamer handle.
Frees(calls) ==
  { i \in DOMAIN calls : calls[i].fn \in { "uhd_rx_streamer_free", "uhd_tx_streamer_free" } }
\* One open released its handle as it must: not at all when the creation
\* failed or when the stream was returned, exactly once when a later call
\* failed.
OpenReleases(last) ==
  LET made == try_uhd(last.calls[1].code).ok
  IN  Cardinality(Frees(last.calls)) = IF made /\ ~last.result.ok THEN 1 ELSE 0
\* C25: RxStreamBuilder::open and TxStreamBuilder::open release every handle
\* they created exactly once on every path: by the drop of the returned
\* stream on success, before the error is returned when the get-stream call
\* or a query fails, and never for a handle whose creation failed.
C25_OpenReleasesOnce ==
  /\ rxLast.op = "open" /\ rxLast.calls /= <<>> => OpenReleases(rxLast)
  /\ twLast.op = "open" => OpenReleases(twLast)
  /\ rxLast.op = "drop_stream" => Cardinality(Frees(rxLast.calls)) = 1
  /\ twLast.op = "drop_stream" => Cardinality(Frees(twLast.calls)) = 1

(* ------------------------------- C26 ----------------------------------- *)
\* C26: when the native creation of the Tx metadata handle reports a
\* non-success code, send returns the translated error and makes no native
\* send call; the native send only gets a handle whose creation succeeded.
C26_MetadataCreationChecked ==
  twLast.op = "send" =>
    /\ ~try_uhd(twLast.make_code).ok =>
         /\ twLast.result = try_uhd(twLast.make_code)
         /\ \A i \in DOMAIN twLast.calls : twLast.calls[i].fn /= "uhd_tx_streamer_send"
    /\ \A i \in DOMAIN twLast.calls :
         twLast.calls[i].fn = "uhd_tx_streamer_send" => twLast.calls[i].md_created

(* ------------------------------- C27 ----------------------------------- *)
\* C27: recv reaches the native receive call only with a buffer of the
\* stream's channel count and of the stream's maximum samples per call, and
\* the sample count it passes is that maximum; for every other buffer it
\* returns Err(Index) without a native call.
C27_RecvShapeIsTheStreams ==
  rxLast.op = "recv" =>
    IF /\ rxLast.buff.channels = stream.channels
       /\ rxLast.buff.samples = stream.samples_per_buffer
      THEN /\ Len(rxLast.calls) = 1
           /\ rxLast.calls[1].fn = "uhd_rx_streamer_recv"
           /\ rxLast.calls[1].samples_per_channel = stream.samples_per_buffer
      ELSE /\ rxLast.result = Err("Index")
           /\ rxLast.calls = <<>>
\* A buffer of the right channel count but too short was refused.
C27_Witness ==
  /\ rxLast.op = "recv"
  /\ rxLast.buff.channels = stream.channels
  /\ rxLast.buff.samples < stream.samples_per_buffer
  /\ rxLast.result = Err("Index")
  /\ rxLast.calls = <<>>

(* ------------------------------- C28 ----------------------------------- *)
\* How often the allocation at an address was deallocated.
ReleasesOf(addr) == Cardinality({ i \in DOMAIN released : released[i].addr = addr })
\* C28: each channel region of an ArrayBuffer is released exactly once:
\* every deallocation is of a region that was allocated, as what it was
\* allocated; none is made twice; and when the buffers and the vectors
\* into_vec returned are gone, every allocation has been released.
C28_RegionsReleasedOnce ==
  /\ \A i \in DOMAIN released : released[i].allocated /\ released[i].layout_ok
  /\ \A a \in DOMAIN heap : ReleasesOf(a) <= 1
  /\ abuf = None /\ abuf2 = None /\ vecs = {} =>
       \A a \in DOMAIN heap : Allocated(heap, a) => ReleasesOf(a) = 1


\* C29: recv_until performs at least one recv; the predicate is evaluated
\* exactly once after each successful recv and the loop goes on only while it
\* answers TRUE; the call returns Ok(()) exactly when the predicate first
\* answers FALSE, and on the first failing recv it returns that error at
\* once, with no predicate evaluation and no further native call.
C29_RecvUntilLoop ==
  until.pc /= "idle" =>
    LET rs == until.results
        ps == until.preds
        n == Len(rs)
    IN
    /\ until.pc = "done" => n >= 1
    /\ Len(ps) = Cardinality({ i \in 1..n : rs[i].ok })
    /\ \A i \in 1..(n - 1) : rs[i].ok /\ ps[i]
    /\ until.natives <= n
    /\ until.natives = Cardinality({ i \in 1..n : ~rs[i].ok => rs[i].err /= "Index" })
    /\ until.pc = "loop" => until.result = None /\ (n > 0 => rs[n].ok /\ ps[n])
    /\ until.pc = "done" =>
         /\ IsSome(until.result)
         /\ Unwrap(until.result).ok <=> (rs[n].ok /\ ~ps[Len(ps)])
         /\ Unwrap(until.result).ok => Unwrap(until.result).val = Unit
         /\ ~rs[n].ok => Unwrap(until.result) = rs[n] /\ Len(ps) = n - 1

\* A recv_until that went round once with the predicate TRUE and then
\* returned the error of the failing second recv.
C29_Witness ==
  /\ until.pc = "done"
  /\ Len(until.results) = 2
  /\ until.preds = <<TRUE>>
  /\ ~Unwrap(until.result).ok
  /\ until.natives = 2


\* C30: last_error_message returns Ok(message) whenever the native call
\* succeeds and leaves a NUL-terminated message shorter than the buffer, the
\* message being the bytes before the first NUL (as text); it returns
\* Err(Unknown) only when the native call failed or the buffer cannot be
\* converted.
C30_MessageReturned ==
  lastMsg.op = "last_error_message" =>
    LET m == lastMsg.message
        r == lastMsg.result
    IN
    /\ (try_uhd(lastMsg.code).ok /\ first_nul(m) > 0) =>
         /\ r.ok
         /\ r.val = to_string_lossy(SubSeq(m, 1, first_nul(m) - 1))
    /\ (~r.ok /\ r.err = "Unknown") =>
         (~try_uhd(lastMsg.code).ok \/ ~CString_new(m).ok)

=============================================================================
